---- MODULE Spec2Model ----
(***************************************************************************)
(* The pg_autoctl keeper: its node-active control loop                     *)
(* (service_keeper.c), the local state handling and the registration       *)
(* transaction (keeper.c), and the monitor client calls they rest on       *)
(* (monitor.c, pgsql.c).                                                   *)
(***************************************************************************)
EXTENDS Integers, FiniteSets, Sequences, TLC

(***************************************************************************)
(* Bounds of the model.                                                    *)
(***************************************************************************)
\* wall-clock seconds run from 1 (time(NULL) is never 0) to MaxTime
MaxTime == 3
\* config->network_partition_timeout is drawn from 0..MaxPartitionTimeout
MaxPartitionTimeout == 1
\* the registration retry policy expires after MaxRegisterRetries retries
MaxRegisterRetries == 2
\* the largest timeout.postgresql_restart_failure_timeout explored, in seconds
MaxRestartFailureTimeout == 1
\* the largest timeout.postgresql_restart_failure_max_retries explored, and
\* the cap of the count of failed starts
MaxStartRetries == 2
\* the system identifiers of the clusters that PGDATA may hold
MaxSystemIdentifier == 2
\* retryPolicy->maxT, in seconds, is at most MaxRetryTime
MaxRetryTime == 2
\* the sleep times of one retry loop that are computed
MaxSleepAttempts == 4
\* the node ids of the peers of this node are 1..MaxNodeId
MaxNodeId == 3
\* the capacity of a NodeAddressArray, scaled down
NODE_ARRAY_MAX_COUNT == 3

\* the notification wait: the clock, the queue of the socket and the timeout
\* PG_AUTOCTL_LISTEN_NOTIFICATIONS_TIMEOUT, scaled down
MaxWaitTime == 4
MaxQueue == 2
PG_AUTOCTL_LISTEN_NOTIFICATIONS_TIMEOUT == 2

\* the pace of the loop: the clock and PG_AUTOCTL_KEEPER_SLEEP_TIME, scaled
\* down
MaxCycleTime == 4
PG_AUTOCTL_KEEPER_SLEEP_TIME == 1

(***************************************************************************)
(* NodeState: the roles the loop distinguishes.  The monitor's replies are *)
(* drawn from ReplyRoles; INIT is the role written at registration and     *)
(* DEMOTE_TIMEOUT is also the role the keeper assigns to itself.           *)
(***************************************************************************)
NO_STATE == "NO_STATE"
INIT_STATE == "INIT"
SINGLE_STATE == "SINGLE"
PRIMARY_STATE == "PRIMARY"
SECONDARY_STATE == "SECONDARY"
DRAINING_STATE == "DRAINING"
DEMOTE_TIMEOUT_STATE == "DEMOTE_TIMEOUT"
DEMOTED_STATE == "DEMOTED"
CATCHINGUP_STATE == "CATCHINGUP"
WAIT_PRIMARY_STATE == "WAIT_PRIMARY"
MAINTENANCE_STATE == "MAINTENANCE"

ReplyRoles ==
    {SINGLE_STATE, PRIMARY_STATE, SECONDARY_STATE, DRAINING_STATE, DEMOTED_STATE}

NodeState == ReplyRoles \cup {INIT_STATE, DEMOTE_TIMEOUT_STATE}

\* the states in which Postgres must not run
DownRoles == {DRAINING_STATE, DEMOTE_TIMEOUT_STATE, DEMOTED_STATE}

\* the roles whose keeper_ensure_current_state branch wants Postgres running
RunningRoles == {PRIMARY_STATE, SINGLE_STATE, SECONDARY_STATE}

VARIABLES
    pc,                  \* position of pg_autoctl: in registration, then in its loop
    file,                \* the contents of the state file (KeeperStateData)
    mem,                 \* keeper->state, the in-memory KeeperStateData
    now,                 \* time(NULL)
    networkPartitionTimeout,  \* config->network_partition_timeout
    pgRunning,           \* whether the local Postgres is running
    pgIsRunning,         \* postgres->pgIsRunning, the value sampled this iteration
    replica,             \* whether a standby is connected (pg_stat_replication)
    monitorCut,          \* the monitor cannot be reached any more (partition)
    outcome,             \* how keeper_node_active ended in this iteration
    reported,            \* the current_role passed to monitor_node_active
    hasReplica,          \* is_network_healthy saw a connected replica
    selfAssigned,        \* is_network_healthy returned false in this iteration
    ensured,             \* keeper_ensure_current_state ran in this iteration
    ensureStarted,       \* ... and it asked for Postgres to be started
    ensureStopped,       \* ... and it asked for Postgres to be stopped
    transition,          \* "none", "ok" or "failed": keeper_fsm_reach_assigned_state
    fileExists,          \* whether the state file exists on disk
    monitor_pgsql,       \* monitor->pgsql: the connection and its server session
    monitorRegistered,   \* the monitor holds a committed registration of this node
    assignedState,       \* the goal state register_node returned
    retries,             \* retries of register_node made so far
    failedStep,          \* the step at which keeper_register_and_init failed
    pgFirstStartFailureTs,     \* postgres->pgFirstStartFailureTs
    pgStartRetries,            \* postgres->pgStartRetries
    restartFailureTimeout,     \* config->postgresql_restart_failure_timeout
    restartFailureMaxRetries,  \* config->postgresql_restart_failure_max_retries
    reportPgIsRunning,         \* what keeper_node_active got from ReportPgIsRunning
    system_identifier,         \* keeperState->system_identifier, 0 when not known
    control_system_identifier, \* the system identifier of the local Postgres
    portMatches,               \* pidFile.port is config->pgSetup.pgport
    pgStateUpdated,            \* what keeper_update_pg_state returned
    retryPolicy,               \* pgsql->retryPolicy, a ConnectionRetryPolicy
    registerPolicy,            \* the retryPolicy given to monitor_register_node
    sleepMs,                   \* the last computed retry sleep time
    asked,                     \* which of asked_to_stop, ... is raised, or "none"
    status,                    \* pgsql->status
    sqlstate,                  \* how the last monitor query ended
    firstLoop,                 \* firstLoop of keeper_node_active_loop
    pidfileOurs,               \* the PID file still holds the PID of this process
    versionCheck,              \* how the version check of this iteration ended
    nodeActiveSent,            \* monitor_node_active was called in this iteration
    connAttempts,              \* attempts to reach the monitor in this iteration
    exitCode,                  \* the exit code of the process, or "none"
    otherNodes,                \* keeper->otherNodes, a NodeAddressArray
    previousNodesArray,        \* keeper->otherNodes as the last refresh found it
    newNodesArray,             \* what the monitor returned to the last refresh
    diffNodesArray,            \* the diff the last refresh computed
    hbaRules,                  \* the hosts that have their rules in pg_hba.conf
    hbaEdited,                 \* the last refresh edited the rules of pg_hba.conf
    hbaReload,                 \* the last refresh called pgsql_reload_conf
    slots,                     \* pg_replication_slots of the local Postgres
    droppedSlots,              \* the slots the last maintenance query dropped
    maintained,                \* how the last slot maintenance ended, and its role
    config,                    \* keeper->config, the KeeperConfig in memory
    configFile,                \* the configuration file on disk
    monitorUri,                \* keeper->monitor.pgsql.connectionString
    current_node_id,           \* keeperState->current_node_id
    stateFileNodeId,           \* current_node_id in the state file
    reloaded,                  \* how the last reload_configuration ended
    metadataCall,              \* the last call of monitor_update_node_metadata
    nodeActiveCall,            \* the last call of monitor_node_active
    sqlClient,                 \* postgres->sqlClient holds an open connection
    steps,                     \* what the running iteration has done so far
    removal,                   \* keeper_remove: its arguments and what it did
    listen,                    \* a wait for notifications of the monitor
    cycle,                     \* doSleep of the loop and what it follows from
    standby                    \* the standby setup of keeper_ensure_configuration

vars == <<pc, file, mem, now, networkPartitionTimeout, pgRunning, pgIsRunning,
          replica, monitorCut, outcome, reported, hasReplica,
          selfAssigned, ensured, ensureStarted, ensureStopped, transition,
          fileExists, monitor_pgsql, monitorRegistered, assignedState,
          retries, failedStep,
          pgFirstStartFailureTs, pgStartRetries, restartFailureTimeout,
          restartFailureMaxRetries, reportPgIsRunning,
          system_identifier, control_system_identifier, portMatches,
          pgStateUpdated, retryPolicy, registerPolicy, sleepMs, asked, status,
          sqlstate, firstLoop, pidfileOurs, versionCheck, nodeActiveSent,
          connAttempts, exitCode,
          otherNodes, previousNodesArray, newNodesArray, diffNodesArray,
          hbaRules, hbaEdited, hbaReload, slots, droppedSlots, maintained,
          config, configFile, monitorUri, current_node_id, stateFileNodeId,
          reloaded, metadataCall, nodeActiveCall, sqlClient, steps,
          removal, listen, cycle, standby>>

iterVars == <<outcome, reported, hasReplica, selfAssigned,
              ensured, ensureStarted, ensureStopped, transition>>

envVars == <<now, networkPartitionTimeout, pgRunning, replica, monitorCut>>

regVars == <<fileExists, monitor_pgsql, monitorRegistered, assignedState,
             retries, failedStep>>

\* the restart-failure tracking of the local Postgres and its report
reportVars == <<pgFirstStartFailureTs, pgStartRetries, restartFailureTimeout,
                restartFailureMaxRetries, reportPgIsRunning>>

\* what keeper_update_pg_state checks of the local Postgres
controlVars == <<system_identifier, control_system_identifier, portMatches,
                 pgStateUpdated>>

\* the connection retry policy and what the retry loops see
retryVars == <<retryPolicy, registerPolicy, sleepMs, asked, status, sqlstate>>

\* what an iteration of keeper_node_active_loop does with the monitor
tickVars == <<firstLoop, pidfileOurs, versionCheck, nodeActiveSent,
              connAttempts, exitCode>>

\* the cached peers of the node, the HBA file and the replication slots
peerVars == <<otherNodes, previousNodesArray, newNodesArray, diffNodesArray,
              hbaRules, hbaEdited, hbaReload, slots, droppedSlots, maintained>>

\* the configuration of the node and what follows from it
configVars == <<config, configFile, monitorUri, current_node_id,
                stateFileNodeId, reloaded, metadataCall, nodeActiveCall>>

\* the order of the steps of an iteration of the loop
orderVars == <<sqlClient, steps>>

\* the peers and the configuration of the node
\* the operations that have a specification of their own
opVars == <<removal, listen, cycle, standby>>

extraVars == <<peerVars, configVars, orderVars, opVars>>

\* the variables the registration and the node-active loop below leave alone
auxVars == <<reportVars, controlVars, retryVars, tickVars, extraVars>>

\* ... and their values when nothing has happened to them
ReportIdle ==
    /\ pgFirstStartFailureTs = 0
    /\ pgStartRetries = 0
    /\ restartFailureTimeout = MaxRestartFailureTimeout
    /\ restartFailureMaxRetries = MaxStartRetries
    /\ reportPgIsRunning = FALSE

ControlIdle ==
    /\ system_identifier = 0
    /\ control_system_identifier = 1
    /\ portMatches = TRUE
    /\ pgStateUpdated = TRUE

\* a zeroed ConnectionRetryPolicy
NoPolicy ==
    [maxT |-> 0, maxR |-> 0, maxSleepTime |-> 0, baseSleepTime |-> 0,
     startTime |-> 0, attempts |-> 0, sleepTime |-> 0]

RetryIdle ==
    /\ retryPolicy = NoPolicy
    /\ registerPolicy = NoPolicy
    /\ sleepMs = 0
    /\ asked = "none"
    /\ status = "PG_CONNECTION_BAD"
    /\ sqlstate = "none"

TickIdle ==
    /\ firstLoop = TRUE
    /\ pidfileOurs = TRUE
    /\ versionCheck = "none"
    /\ nodeActiveSent = FALSE
    /\ connAttempts = 0
    /\ exitCode = "none"

\* an entry of a zeroed NodeAddressArray
ZeroNode == [nodeId |-> 0, host |-> ""]

\* NodeAddressArray array = { 0 }
EmptyNodesArray ==
    [count |-> 0, nodes |-> [i \in 1..NODE_ARRAY_MAX_COUNT |-> ZeroNode]]

PeerIdle ==
    /\ otherNodes = EmptyNodesArray
    /\ previousNodesArray = EmptyNodesArray
    /\ newNodesArray = EmptyNodesArray
    /\ diffNodesArray = EmptyNodesArray
    /\ hbaRules = {}
    /\ hbaEdited = FALSE
    /\ hbaReload = FALSE
    /\ slots = {}
    /\ droppedSlots = {}
    /\ maintained = [role |-> NO_STATE, result |-> "none", operations |-> {}]

\* postgres_sprintf_replicationSlotName: "%s_%d"; a name is the sequence of
\* its parts
REPLICATION_SLOT_NAME_DEFAULT == "pgautofailover_standby"

SlotName(nodeId) == <<REPLICATION_SLOT_NAME_DEFAULT, "_", nodeId>>

\* the configuration of the node when the service starts
BaseConfig ==
    [pgdata |-> "/data/a", monitor_pguri |-> "postgres://m1", name |-> "n1",
     hostname |-> "host1", pgport |-> 5432, network_partition_timeout |-> 20,
     groupId |-> 0, replication_slot_name |-> SlotName(1)]

\* no call of monitor_update_node_metadata
NoCall == [sent |-> FALSE]

ConfigIdle ==
    /\ config = BaseConfig
    /\ configFile = BaseConfig
    /\ monitorUri = BaseConfig.monitor_pguri
    /\ current_node_id = 1
    /\ stateFileNodeId = 1
    /\ reloaded = "none"
    /\ metadataCall = NoCall
    /\ nodeActiveCall = NoCall

OrderIdle ==
    /\ sqlClient = FALSE
    /\ steps = <<>>

\* keeper_remove has not been called
NoRemoval ==
    [monitorDisabled |-> FALSE, ignore_monitor_errors |-> FALSE,
     initFile |-> TRUE, monitorCall |-> "none", returned |-> "none"]

\* no wait for notifications is under way
NoListen == [start |-> 0, queue |-> <<>>, done |-> FALSE, returned |-> "none"]

\* the loop before its first iteration
NoCycle == [doSleep |-> FALSE, firstLoop |-> TRUE, slept |-> FALSE,
            previous |-> "none"]

\* no standby setup has run
NoStandby ==
    [current_role |-> NO_STATE, primaryNode |-> FALSE, conf |-> "none",
     running |-> FALSE, currentConfContents |-> "none",
     checkpoint |-> "none", restart |-> "none", returned |-> "none"]

OpIdle ==
    /\ removal = NoRemoval
    /\ listen = NoListen
    /\ cycle = NoCycle
    /\ standby = NoStandby

ExtraIdle == PeerIdle /\ ConfigIdle /\ OrderIdle /\ OpIdle

AuxIdle == ReportIdle /\ ControlIdle /\ RetryIdle /\ TickIdle /\ ExtraIdle

KeeperStateData(cur, asg, lmc, lsc) ==
    [current_role |-> cur, assigned_role |-> asg,
     last_monitor_contact |-> lmc, last_secondary_contact |-> lsc]

(***************************************************************************)
(* State file I/O.                                                         *)
(***************************************************************************)
\* keeper_load_state: keeper->state becomes what the state file holds
keeper_load_state_mem(f, m) == m
keeper_load_state(f, m) == f

\* keeper_store_state: write-temp-then-rename, the file becomes keeper->state
\* or stays what it was
keeper_state_write(f, m, ok) == IF ok THEN m ELSE f

(***************************************************************************)
(* Network partition detection.                                            *)
(***************************************************************************)
\* networkPartitionTimeout < (uint64_t) (now - contact).  The difference is
\* unsigned: when the wall clock is behind the recorded contact it wraps to a
\* value above every int, and the comparison holds.
TimeoutBelowLag(timeout, t, contact) ==
    IF t >= contact THEN timeout < t - contact ELSE TRUE

\* a mutant that forgets that both timestamps must be set
in_network_partition_nozero(keeperState, t, timeout) ==
    /\ TimeoutBelowLag(timeout, t, keeperState.last_monitor_contact)
    /\ TimeoutBelowLag(timeout, t, keeperState.last_secondary_contact)

\* a mutant that treats a zero timeout as "never in a partition"
in_network_partition_zero_disables(keeperState, t, timeout) ==
    /\ timeout > 0
    /\ keeperState.last_monitor_contact > 0
    /\ keeperState.last_secondary_contact > 0
    /\ TimeoutBelowLag(timeout, t, keeperState.last_monitor_contact)
    /\ TimeoutBelowLag(timeout, t, keeperState.last_secondary_contact)

in_network_partition(keeperState, t, timeout) ==
    /\ keeperState.last_monitor_contact > 0
    /\ keeperState.last_secondary_contact > 0
    /\ TimeoutBelowLag(timeout, t, keeperState.last_monitor_contact)
    /\ TimeoutBelowLag(timeout, t, keeperState.last_secondary_contact)

\* is_network_healthy: the keeper state it leaves, and its result.
\* seesReplica: primary_has_replica succeeded and found a replica.
is_network_healthy_state(keeperState, t, seesReplica) ==
    IF keeperState.current_role = PRIMARY_STATE /\ seesReplica
    THEN [keeperState EXCEPT !.last_secondary_contact = t]
    ELSE keeperState

is_network_healthy(keeperState, t, timeout, seesReplica) ==
    \/ keeperState.current_role # PRIMARY_STATE
    \/ seesReplica
    \/ ~in_network_partition(keeperState, t, timeout)

(***************************************************************************)
(* keeper_ensure_current_state and the transition to the assigned state.   *)
(***************************************************************************)
\* a mutant that looks at the current role only
keeper_should_ensure_ignores_assigned(keeperState) ==
    /\ keeperState.assigned_role # keeperState.current_role
    /\ keeperState.current_role \notin DownRoles

keeper_should_ensure_current_state_before_transition(keeperState) ==
    /\ keeperState.assigned_role # keeperState.current_role
    /\ keeperState.assigned_role \notin DownRoles
    /\ keeperState.current_role \notin DownRoles

\* What keeper_ensure_current_state asks of the Postgres service, given the
\* current role and the sampled postgres->pgIsRunning.
\* a mutant that starts Postgres whatever the role is
EnsureRequest_always_start(role, sampledRunning) ==
    IF ~sampledRunning THEN "start" ELSE "none"

EnsureRequest(role, sampledRunning) ==
    CASE role \in RunningRoles -> IF sampledRunning THEN "none" ELSE "start"
      [] role \in DownRoles -> IF sampledRunning THEN "stop" ELSE "none"
      [] OTHER -> "none"

\* the Postgres service after a request that worked (ok) or failed
ServiceAfter(request, running, ok) ==
    CASE request = "start" /\ ok -> TRUE
      [] request = "stop" /\ ok -> FALSE
      [] OTHER -> running

\* keeper_fsm_reach_assigned_state: when the transition function reports
\* success the current role becomes the assigned role
FsmReach(keeperState, ok) ==
    IF ok THEN [keeperState EXCEPT !.current_role = keeperState.assigned_role]
    ELSE keeperState

\* the Postgres service after a successful transition to role goal
TransitionService(goal, running, ok) ==
    CASE ~ok -> running
      [] goal \in DownRoles -> FALSE
      [] goal \in RunningRoles -> TRUE
      [] OTHER -> running

(***************************************************************************)
(* The monitor connection, pgsql.c.  connection: monitor->pgsql.connection *)
(* is not NULL; inTransaction: BEGIN ran on this connection; pending: the  *)
(* session holds an uncommitted register_node.                             *)
(***************************************************************************)
\* monitor->pgsql.connection is NULL
NoConnection ==
    [connection |-> FALSE, inTransaction |-> FALSE, pending |-> FALSE]

\* pgsql_finish: PQfinish, and the server rolls back what the session held
pgsql_finish(pgsql) == NoConnection

\* pgsql_open_connection: reuse the connection when there is one, otherwise
\* connect; a new connection starts outside of any transaction
pgsql_open_connection(pgsql, connectOk) ==
    IF pgsql.connection THEN pgsql
    ELSE IF connectOk
         THEN [connection |-> TRUE, inTransaction |-> FALSE, pending |-> FALSE]
         ELSE pgsql_finish(pgsql)

\* the state file keeper_state_create_file writes
BlankState == KeeperStateData(INIT_STATE, NO_STATE, 0, 0)

\* the goal states register_node assigns
RegisterGoals == {SINGLE_STATE, SECONDARY_STATE}

\* the ways the register_node query ends
RegisterOutcomes ==
    {"connfail", "ok", "parsefail", "object_in_use", "exclusion_violation",
     "error"}

StepsAfterBegin ==
    {"register", "update_state", "config_update", "init_state", "commit"}

Init ==
    /\ pc = "create_state"
    /\ now = 1
    /\ networkPartitionTimeout \in 0..MaxPartitionTimeout
    /\ file = BlankState
    /\ mem = BlankState
    /\ fileExists = FALSE
    /\ monitor_pgsql = NoConnection
    /\ monitorRegistered = FALSE
    /\ assignedState = NO_STATE
    /\ retries = 0
    /\ failedStep = "none"
    /\ pgRunning \in BOOLEAN
    /\ pgIsRunning = FALSE
    /\ replica = FALSE
    /\ monitorCut = FALSE
    /\ outcome = "none"
    /\ reported = NO_STATE
    /\ hasReplica = FALSE
    /\ selfAssigned = FALSE
    /\ ensured = FALSE
    /\ ensureStarted = FALSE
    /\ ensureStopped = FALSE
    /\ transition = "none"
    /\ AuxIdle

\* the per-iteration records start afresh
IterReset ==
    /\ outcome' = "none"
    /\ reported' = NO_STATE
    /\ hasReplica' = FALSE
    /\ selfAssigned' = FALSE
    /\ ensured' = FALSE
    /\ ensureStarted' = FALSE
    /\ ensureStopped' = FALSE
    /\ transition' = "none"

(***************************************************************************)
(* Registration, keeper_register_and_init.                                 *)
(***************************************************************************)
\* unlink_file(config->pathnames.state)
unlink_file ==
    /\ fileExists' = FALSE
    /\ file' = BlankState

\* keeper_register_and_init returns false at step
RegisterFails(step) ==
    /\ pc' = "returned_false"
    /\ failedStep' = step

\* a registration whose first step creates no state file
RegisterCreateState_no_file ==
    /\ pc = "create_state"
    /\ pc' = "begin"
    /\ UNCHANGED <<file, fileExists, mem, failedStep>>
    /\ UNCHANGED <<monitor_pgsql, monitorRegistered, assignedState, retries>>
    /\ UNCHANGED <<pgIsRunning>>
    /\ UNCHANGED iterVars
    /\ UNCHANGED envVars
    /\ UNCHANGED auxVars

\* keeper_state_create_file, then keeper_init which reads the new file
RegisterCreateState ==
    /\ pc = "create_state"
    /\ \E createOk \in BOOLEAN, initOk \in BOOLEAN :
          IF ~createOk
          THEN /\ RegisterFails("create_state")
               /\ UNCHANGED <<file, fileExists, mem>>
          ELSE /\ fileExists' = TRUE
               /\ file' = BlankState
               /\ IF initOk
                  THEN /\ mem' = keeper_load_state(file', mem)
                       /\ pc' = "begin"
                       /\ UNCHANGED failedStep
                  ELSE /\ RegisterFails("keeper_init")
                       /\ UNCHANGED mem
    /\ UNCHANGED <<monitor_pgsql, monitorRegistered, assignedState, retries>>
    /\ UNCHANGED <<pgIsRunning>>
    /\ UNCHANGED iterVars
    /\ UNCHANGED envVars
    /\ UNCHANGED auxVars

\* pgsql_execute(&(monitor->pgsql), "BEGIN")
RegisterBegin ==
    /\ pc = "begin"
    /\ \E connectOk \in BOOLEAN, queryOk \in BOOLEAN :
          LET opened == pgsql_open_connection(monitor_pgsql, connectOk) IN
          /\ ~connectOk => queryOk
          /\ IF opened.connection /\ queryOk
             THEN /\ monitor_pgsql' = [opened EXCEPT !.inTransaction = TRUE]
                  /\ pc' = "register"
                  /\ UNCHANGED <<file, fileExists, failedStep>>
             ELSE /\ monitor_pgsql' = pgsql_finish(opened)
                  /\ unlink_file
                  /\ RegisterFails("begin")
    /\ UNCHANGED <<monitorRegistered, assignedState, retries>>
    /\ UNCHANGED <<mem, pgIsRunning>>
    /\ UNCHANGED iterVars
    /\ UNCHANGED envVars
    /\ UNCHANGED auxVars

\* One run of monitor_register_node's query.  A failed query closes the
\* connection (pgsql_execute_with_params); after object-in-use the function
\* calls itself until the retry policy has expired.  register_node run outside
\* of a transaction block is committed when it returns.
monitor_register_node ==
    /\ pc = "register"
    /\ \E result \in RegisterOutcomes, goal \in RegisterGoals :
          LET opened == pgsql_open_connection(monitor_pgsql,
                                              result # "connfail")
              executed == IF opened.inTransaction
                          THEN [opened EXCEPT !.pending = TRUE]
                          ELSE opened
              committed == monitorRegistered \/ ~opened.inTransaction
          IN
          /\ result = "connfail" => ~monitor_pgsql.connection
          /\ CASE result = "ok" ->
                    /\ monitor_pgsql' = executed
                    /\ monitorRegistered' = committed
                    /\ assignedState' = goal
                    /\ pc' = "update_state"
                    /\ UNCHANGED <<retries, failedStep>>
               [] result = "parsefail" ->
                    /\ monitor_pgsql' = executed
                    /\ monitorRegistered' = committed
                    /\ pc' = "rollback"
                    /\ failedStep' = "register"
                    /\ UNCHANGED <<assignedState, retries>>
               [] result = "object_in_use" /\ retries < MaxRegisterRetries ->
                    /\ monitor_pgsql' = pgsql_finish(opened)
                    /\ retries' = retries + 1
                    /\ pc' = "register"
                    /\ UNCHANGED <<monitorRegistered, assignedState, failedStep>>
               [] OTHER ->
                    /\ monitor_pgsql' = pgsql_finish(opened)
                    /\ pc' = "rollback"
                    /\ failedStep' = "register"
                    /\ UNCHANGED <<monitorRegistered, assignedState, retries>>
    /\ UNCHANGED <<file, fileExists, mem, pgIsRunning>>
    /\ UNCHANGED iterVars
    /\ UNCHANGED envVars
    /\ UNCHANGED auxVars

\* keeper_update_state(keeper, nodeId, groupId, assignedState.state, true)
keeper_update_state ==
    /\ pc = "update_state"
    /\ \E ok \in BOOLEAN :
          /\ mem' = [mem EXCEPT !.last_monitor_contact = now,
                                !.assigned_role = assignedState]
          /\ file' = keeper_state_write(file, mem', ok)
          /\ pc' = IF ok THEN "config_update" ELSE "rollback"
          /\ failedStep' = IF ok THEN failedStep ELSE "update_state"
    /\ UNCHANGED <<fileExists, monitor_pgsql, monitorRegistered,
                   assignedState, retries>>
    /\ UNCHANGED <<pgIsRunning>>
    /\ UNCHANGED iterVars
    /\ UNCHANGED envVars
    /\ UNCHANGED auxVars

\* keeper_config_update, then keeper_init_state_create
RegisterLocalFiles ==
    /\ pc \in {"config_update", "init_state"}
    /\ \E ok \in BOOLEAN :
          /\ pc' = IF ~ok THEN "rollback"
                   ELSE IF pc = "config_update" THEN "init_state" ELSE "commit"
          /\ failedStep' = IF ok THEN failedStep ELSE pc
    /\ UNCHANGED <<fileExists, monitor_pgsql, monitorRegistered,
                   assignedState, retries>>
    /\ UNCHANGED <<file, mem, pgIsRunning>>
    /\ UNCHANGED iterVars
    /\ UNCHANGED envVars
    /\ UNCHANGED auxVars

\* pgsql_execute(&(monitor->pgsql), "COMMIT"): the session's pending
\* registration is committed; on failure the state file is unlinked.  On
\* success keeper_register_and_init returns true and the service starts.
RegisterCommit ==
    /\ pc = "commit"
    /\ \E ok \in BOOLEAN :
          LET opened == pgsql_open_connection(monitor_pgsql, ok) IN
          /\ monitor_pgsql' = pgsql_finish(opened)
          /\ IF ok
             THEN /\ monitorRegistered' = (monitorRegistered \/ opened.pending)
                  /\ pc' = "start"
                  /\ assignedState' = NO_STATE
                  /\ retries' = 0
                  /\ UNCHANGED <<file, fileExists, failedStep>>
             ELSE /\ unlink_file
                  /\ RegisterFails("commit")
                  /\ UNCHANGED <<monitorRegistered, assignedState, retries>>
    /\ UNCHANGED <<mem, pgIsRunning>>
    /\ UNCHANGED iterVars
    /\ UNCHANGED envVars
    /\ UNCHANGED auxVars

\* the rollback label: unlink the state file, ROLLBACK on the connection
\* pgsql_execute opens or reuses, pgsql_finish, return false
RegisterRollback ==
    /\ pc = "rollback"
    /\ unlink_file
    /\ \E connectOk \in BOOLEAN :
          monitor_pgsql' =
             pgsql_finish(pgsql_open_connection(monitor_pgsql, connectOk))
    /\ pc' = "returned_false"
    /\ UNCHANGED <<monitorRegistered, assignedState, retries, failedStep>>
    /\ UNCHANGED <<mem, pgIsRunning>>
    /\ UNCHANGED iterVars
    /\ UNCHANGED envVars
    /\ UNCHANGED auxVars

(***************************************************************************)
(* The node-active loop, keeper_node_active_loop.                          *)
(***************************************************************************)
\* Top of the loop: keeper_load_state, then keeper_update_pg_state samples
\* the local Postgres.  A failed load restarts the iteration.
LoopBegin ==
    /\ pc = "start"
    /\ \E loadOk \in BOOLEAN :
          IF loadOk
          THEN /\ mem' = keeper_load_state(file, mem)
               /\ pgIsRunning' = pgRunning
               /\ pc' = "loaded"
          ELSE /\ UNCHANGED <<mem, pgIsRunning>>
               /\ pc' = "start"
    /\ IterReset
    /\ UNCHANGED file
    /\ UNCHANGED envVars
    /\ UNCHANGED regVars
    /\ UNCHANGED auxVars

\* The ways keeper_node_active ends:
\*   connfail    the version check could not connect: return false
\*   mismatch    the version check failed on an open connection: exit
\*   nafail      monitor_node_active failed: check for a network partition
\*   ok          the monitor replied
\*   refreshfail the monitor replied, refreshing the other nodes failed
NodeActiveOutcomes == {"connfail", "mismatch", "nafail", "ok", "refreshfail"}

\* a mutant in which a failed call with a healthy network drops the goal
keeper_node_active_state_clears(keeperState, out, reply, t, timeout, seesReplica) ==
    CASE out \in {"ok", "refreshfail"} ->
            [keeperState EXCEPT !.last_monitor_contact = t,
                                !.assigned_role = reply]
      [] is_network_healthy(keeperState, t, timeout, seesReplica) ->
            [is_network_healthy_state(keeperState, t, seesReplica)
                EXCEPT !.assigned_role = keeperState.current_role]
      [] OTHER -> [keeperState EXCEPT !.assigned_role = DEMOTE_TIMEOUT_STATE]

\* a mutant in which the reply does not set last_monitor_contact
keeper_node_active_state_nocontact(keeperState, out, reply, t, timeout, seesReplica) ==
    CASE out = "nafail" /\ keeperState.current_role = PRIMARY_STATE ->
            IF is_network_healthy(keeperState, t, timeout, seesReplica)
            THEN is_network_healthy_state(keeperState, t, seesReplica)
            ELSE [keeperState EXCEPT !.assigned_role = DEMOTE_TIMEOUT_STATE]
      [] out \in {"ok", "refreshfail"} ->
            [keeperState EXCEPT !.assigned_role = reply]
      [] OTHER -> keeperState

\* keeper->state after keeper_node_active
keeper_node_active_state(keeperState, out, reply, t, timeout, seesReplica) ==
    CASE out = "nafail" /\ keeperState.current_role = PRIMARY_STATE ->
            IF is_network_healthy(keeperState, t, timeout, seesReplica)
            THEN is_network_healthy_state(keeperState, t, seesReplica)
            ELSE [keeperState EXCEPT !.assigned_role = DEMOTE_TIMEOUT_STATE]
      [] out \in {"ok", "refreshfail"} ->
            [keeperState EXCEPT !.last_monitor_contact = t,
                                !.assigned_role = reply]
      [] OTHER -> keeperState

keeper_node_active ==
    /\ pc = "loaded"
    /\ \E out \in NodeActiveOutcomes, reply \in ReplyRoles, queryOk \in BOOLEAN :
          LET seesReplica == pgRunning /\ replica /\ queryOk IN
          /\ monitorCut => out = "connfail"
          /\ IF out = "mismatch"
             THEN \* exit(EXIT_CODE_MONITOR)
                  /\ pc' = "exited"
                  /\ mem' = file
                  /\ IterReset
             ELSE
               /\ pc' = "active"
               /\ outcome' = out
               /\ reported' = IF out = "connfail"
                              THEN NO_STATE ELSE mem.current_role
               /\ mem' = keeper_node_active_state(mem, out, reply, now,
                                networkPartitionTimeout, seesReplica)
               /\ hasReplica' =
                     (out = "nafail" /\ mem.current_role = PRIMARY_STATE
                      /\ seesReplica)
               /\ selfAssigned' =
                     (out = "nafail" /\ mem.current_role = PRIMARY_STATE
                      /\ ~is_network_healthy(mem, now, networkPartitionTimeout,
                                             seesReplica))
               /\ UNCHANGED <<ensured, ensureStarted, ensureStopped, transition>>
    /\ UNCHANGED <<file, pgIsRunning>>
    /\ UNCHANGED envVars
    /\ UNCHANGED regVars
    /\ UNCHANGED auxVars

\* the monitor answered node_active, whatever keeper_node_active did next
couldContactMonitor_answered == outcome \in {"ok", "refreshfail"}

\* couldContactMonitorThisRound
couldContactMonitor == outcome = "ok"

\* The body of the loop after keeper_node_active: ensure the current state
\* and run the transition, or ensure the current state as a keep-alive.
Reconcile ==
    /\ pc = "active"
    /\ \E serviceOk \in BOOLEAN, transitionOk \in BOOLEAN :
          LET needStateChange == mem.assigned_role # mem.current_role
              doEnsure ==
                 IF needStateChange
                 THEN keeper_should_ensure_current_state_before_transition(mem)
                 ELSE couldContactMonitor
              request == IF doEnsure
                         THEN EnsureRequest(mem.current_role, pgIsRunning)
                         ELSE "none"
              afterEnsure == ServiceAfter(request, pgRunning, serviceOk)
          IN
          /\ ensured' = doEnsure
          /\ ensureStarted' = (request = "start")
          /\ ensureStopped' = (request = "stop")
          /\ IF needStateChange
             THEN /\ mem' = FsmReach(mem, transitionOk)
                  /\ transition' = IF transitionOk THEN "ok" ELSE "failed"
                  /\ pgRunning' = TransitionService(mem.assigned_role,
                                                    afterEnsure, transitionOk)
             ELSE /\ transitionOk
                  /\ mem' = mem
                  /\ transition' = "none"
                  /\ pgRunning' = afterEnsure
          /\ request = "none" => serviceOk
    /\ pc' = "acted"
    /\ UNCHANGED <<file, pgIsRunning, outcome, reported,
                   hasReplica, selfAssigned>>
    /\ UNCHANGED <<now, networkPartitionTimeout, replica, monitorCut>>
    /\ UNCHANGED regVars
    /\ UNCHANGED auxVars

\* End of the iteration: keeper_store_state
StoreState ==
    /\ pc = "acted"
    /\ \E ok \in BOOLEAN :
          file' = keeper_state_write(file, mem, ok)
    /\ pc' = "start"
    /\ IterReset
    /\ UNCHANGED <<mem, pgIsRunning>>
    /\ UNCHANGED envVars
    /\ UNCHANGED regVars
    /\ UNCHANGED auxVars

\* The process is killed, or shuts down fast at one of its checkpoints; its
\* memory is gone, and keeper_init of the next process reads the state file
KeeperExits ==
    /\ pc \in {"loaded", "active", "acted"}
    /\ pc' = "exited"
    /\ mem' = file
    /\ IterReset
    /\ UNCHANGED <<file, pgIsRunning>>
    /\ UNCHANGED envVars
    /\ UNCHANGED regVars
    /\ UNCHANGED auxVars

\* The supervisor restarts the node-active process (RP_PERMANENT)
SupervisorRestart ==
    /\ pc = "exited"
    /\ pc' = "start"
    /\ UNCHANGED <<file, mem, pgIsRunning>>
    /\ UNCHANGED iterVars
    /\ UNCHANGED envVars
    /\ UNCHANGED regVars
    /\ UNCHANGED auxVars

(***************************************************************************)
(* The environment.                                                        *)
(***************************************************************************)
\* a second passes
Tick ==
    /\ pc = "start"
    /\ now < MaxTime
    /\ now' = now + 1
    /\ UNCHANGED <<pc, file, mem, pgIsRunning, networkPartitionTimeout,
                   pgRunning, replica, monitorCut>>
    /\ UNCHANGED iterVars
    /\ UNCHANGED regVars
    /\ UNCHANGED auxVars

\* the wall clock is set back (time(NULL) is not monotonic)
ClockSetBack ==
    /\ pc = "start"
    /\ now > 1
    /\ now' = now - 1
    /\ UNCHANGED <<pc, file, mem, pgIsRunning, networkPartitionTimeout,
                   pgRunning, replica, monitorCut>>
    /\ UNCHANGED iterVars
    /\ UNCHANGED regVars
    /\ UNCHANGED auxVars

\* a standby connects to, or disconnects from, the local Postgres
ReplicaChanges ==
    /\ pc = "start"
    /\ replica' = ~replica
    /\ UNCHANGED <<pc, file, mem, pgIsRunning, now,
                   networkPartitionTimeout, pgRunning, monitorCut>>
    /\ UNCHANGED iterVars
    /\ UNCHANGED regVars
    /\ UNCHANGED auxVars

\* Postgres stops (a crash) or is started from outside the keeper (a reboot)
PostgresChanges ==
    /\ pc = "start"
    /\ pgRunning' = ~pgRunning
    /\ UNCHANGED <<pc, file, mem, pgIsRunning, now,
                   networkPartitionTimeout, replica, monitorCut>>
    /\ UNCHANGED iterVars
    /\ UNCHANGED regVars
    /\ UNCHANGED auxVars

\* The network to the monitor is cut, and stays so.  The loop closes its
\* monitor connection at the end of every iteration, so from now on every
\* iteration fails to open one.
MonitorLost ==
    /\ pc = "start"
    /\ ~monitorCut
    /\ monitorCut' = TRUE
    /\ UNCHANGED <<pc, file, mem, pgIsRunning, now,
                   networkPartitionTimeout, pgRunning, replica>>
    /\ UNCHANGED iterVars
    /\ UNCHANGED regVars
    /\ UNCHANGED auxVars

Next ==
    \/ RegisterCreateState
    \/ RegisterBegin
    \/ monitor_register_node
    \/ keeper_update_state
    \/ RegisterLocalFiles
    \/ RegisterCommit
    \/ RegisterRollback
    \/ LoopBegin
    \/ keeper_node_active
    \/ Reconcile
    \/ StoreState
    \/ KeeperExits
    \/ SupervisorRestart
    \/ Tick
    \/ ClockSetBack
    \/ ReplicaChanges
    \/ PostgresChanges

Spec == Init /\ [][Next]_vars

(***************************************************************************)
(* The service of a registered primary whose standby is gone, under a      *)
(* scheduler that lets the loop make progress: time passes, the supervisor *)
(* restarts the process, and the steps that can succeed (loading and       *)
(* storing the state file, the transition) are not made to fail for ever.  *)
(***************************************************************************)
FairInit ==
    /\ pc = "start"
    /\ now = 1
    /\ networkPartitionTimeout \in 0..MaxPartitionTimeout
    /\ file = KeeperStateData(PRIMARY_STATE, PRIMARY_STATE, 1, 1)
    /\ mem = file
    /\ fileExists = TRUE
    /\ monitor_pgsql = NoConnection
    /\ monitorRegistered = TRUE
    /\ assignedState = NO_STATE
    /\ retries = 0
    /\ failedStep = "none"
    /\ pgRunning = TRUE
    /\ pgIsRunning = TRUE
    /\ replica = FALSE
    /\ monitorCut = FALSE
    /\ outcome = "none"
    /\ reported = NO_STATE
    /\ hasReplica = FALSE
    /\ selfAssigned = FALSE
    /\ ensured = FALSE
    /\ ensureStarted = FALSE
    /\ ensureStopped = FALSE
    /\ transition = "none"
    /\ AuxIdle

FairNext ==
    \/ LoopBegin
    \/ keeper_node_active
    \/ Reconcile
    \/ StoreState
    \/ KeeperExits
    \/ SupervisorRestart
    \/ Tick
    \/ MonitorLost

Fairness ==
    /\ WF_vars(Tick)
    /\ WF_vars(SupervisorRestart)
    /\ SF_vars(LoopBegin /\ pc' = "loaded")
    /\ SF_vars(keeper_node_active /\ pc' = "active")
    /\ SF_vars(Reconcile /\ transition' # "failed")
    /\ SF_vars(StoreState /\ file' = mem)

FairSpec == FairInit /\ [][FairNext]_vars /\ Fairness

(***************************************************************************)
(* The local Postgres as the loop sees it: keeper_update_pg_state, the     *)
(* pgIsRunning value reported to the monitor, and the tracking of failed   *)
(* restarts (keeper.c).                                                    *)
(***************************************************************************)
\* keeper_state_check_postgres: the system identifier must not change
keeper_state_check_postgres(sysid, controlSysid) ==
    ~(sysid # controlSysid /\ sysid # 0)

\* keeper_update_pg_state, its three results: postgres->pgIsRunning, the
\* returned boolean and keeperState->system_identifier.  ready is
\* pg_setup_is_ready, queryOk stands for pgsql_get_postgres_metadata (when
\* Postgres runs) or pg_controldata (when it does not and nothing is cached)
keeper_update_pg_state(role, sysid, ready, portOk, controlSysid, queryOk, hasSyncState) ==
    LET running == ready /\ portOk
        checked == keeper_state_check_postgres(sysid, controlSysid)
        early == IF ready
                 THEN ~portOk \/ ~queryOk \/ ~checked
                 ELSE sysid = 0 /\ ~queryOk
        byRole == CASE role = PRIMARY_STATE -> running /\ hasSyncState
                    [] role = SECONDARY_STATE -> running
                    [] OTHER -> TRUE
    IN  [pgIsRunning |-> running,
         returned |-> IF early THEN FALSE ELSE byRole,
         system_identifier |-> IF ready /\ ~early THEN controlSysid ELSE sysid]

\* a mutant that keeps reporting a PRIMARY's Postgres as running when no
\* failed start was recorded
ReportPgIsRunning_grace(role, running, firstFailureTs, startRetries, t, timeout, maxRetries) ==
    CASE role # PRIMARY_STATE -> running
      [] running -> TRUE
      [] firstFailureTs = 0 -> TRUE
      [] TimeoutBelowLag(timeout, t, firstFailureTs) -> FALSE
      [] startRetries >= maxRetries -> FALSE
      [] OTHER -> TRUE

\* ReportPgIsRunning; now - pgFirstStartFailureTs is a uint64_t difference
ReportPgIsRunning(role, running, firstFailureTs, startRetries, t, timeout, maxRetries) ==
    CASE role # PRIMARY_STATE -> running
      [] running -> running
      [] firstFailureTs = 0 -> running
      [] TimeoutBelowLag(timeout, t, firstFailureTs) -> FALSE
      [] startRetries >= maxRetries -> FALSE
      [] OTHER -> TRUE

\* ensure_postgres_service_is_running when the start fails: the Postgres
\* controller records the first failure and counts the retries
failed_start_tracking(firstFailureTs, startRetries, t) ==
    [pgFirstStartFailureTs |-> IF firstFailureTs = 0 THEN t ELSE firstFailureTs,
     pgStartRetries |-> startRetries + 1]

\* keeper_ensure_postgres_is_running: the tracking of failed starts after it,
\* started telling whether ensure_postgres_service_is_running worked
keeper_ensure_postgres_is_running(running, updateRetries, started, firstFailureTs, startRetries, t) ==
    CASE running ->
            IF updateRetries
            THEN [pgFirstStartFailureTs |-> 0, pgStartRetries |-> 0]
            ELSE [pgFirstStartFailureTs |-> firstFailureTs,
                  pgStartRetries |-> startRetries]
      [] started ->
            [pgFirstStartFailureTs |-> firstFailureTs,
             pgStartRetries |-> startRetries]
      [] OTHER -> failed_start_tracking(firstFailureTs, startRetries, t)

\* the roles the monitor assigns in this part
PgReplyRoles == {PRIMARY_STATE, SINGLE_STATE}

\* ... and the ways keeper_node_active ends in it
PgOutcomes == {"connfail", "ok"}

PgInit ==
    /\ pc = "start"
    /\ now = 1
    /\ networkPartitionTimeout = MaxPartitionTimeout
    /\ \E role \in PgReplyRoles :
          file = KeeperStateData(role, role, 1, 1)
    /\ mem = file
    /\ fileExists = TRUE
    /\ monitor_pgsql = NoConnection
    /\ monitorRegistered = TRUE
    /\ assignedState = NO_STATE
    /\ retries = 0
    /\ failedStep = "none"
    /\ pgRunning \in BOOLEAN
    /\ pgIsRunning = FALSE
    /\ replica = TRUE
    /\ monitorCut = FALSE
    /\ outcome = "none"
    /\ reported = NO_STATE
    /\ hasReplica = FALSE
    /\ selfAssigned = FALSE
    /\ ensured = FALSE
    /\ ensureStarted = FALSE
    /\ ensureStopped = FALSE
    /\ transition = "none"
    /\ pgFirstStartFailureTs = 0
    /\ pgStartRetries = 0
    /\ restartFailureTimeout \in 0..MaxRestartFailureTimeout
    /\ restartFailureMaxRetries = MaxStartRetries
    /\ reportPgIsRunning = FALSE
    /\ system_identifier = 0
    /\ control_system_identifier = 1
    /\ portMatches = TRUE
    /\ pgStateUpdated = TRUE
    /\ RetryIdle
    /\ TickIdle
    /\ ExtraIdle

\* what this part never touches
pgFrame == <<networkPartitionTimeout, replica, monitorCut, hasReplica,
             selfAssigned, restartFailureTimeout, restartFailureMaxRetries>>

\* keeper_load_state and keeper_update_pg_state at the top of an iteration;
\* a false keeper_update_pg_state is logged as a warning and the loop goes on
PgLoopBegin ==
    /\ pc = "start"
    /\ \E queryOk \in BOOLEAN :
          LET updated == keeper_update_pg_state(file.current_role,
                             system_identifier, pgRunning, portMatches,
                             control_system_identifier, queryOk, replica)
          IN  /\ pgIsRunning' = updated.pgIsRunning
              /\ pgStateUpdated' = updated.returned
              /\ system_identifier' = updated.system_identifier
    /\ mem' = keeper_load_state(file, mem)
    /\ pc' = "loaded"
    /\ outcome' = "none"
    /\ reported' = NO_STATE
    /\ ensured' = FALSE
    /\ ensureStarted' = FALSE
    /\ ensureStopped' = FALSE
    /\ transition' = "none"
    /\ reportPgIsRunning' = FALSE
    /\ UNCHANGED <<file, now, pgRunning, control_system_identifier,
                   portMatches, pgFirstStartFailureTs, pgStartRetries>>
    /\ UNCHANGED pgFrame
    /\ UNCHANGED regVars
    /\ UNCHANGED <<retryVars, tickVars, extraVars>>

\* keeper_node_active: the report to the monitor and its reply
PgNodeActive ==
    /\ pc = "loaded"
    /\ \E out \in PgOutcomes, reply \in PgReplyRoles :
          /\ outcome' = out
          /\ reported' = IF out = "connfail" THEN NO_STATE ELSE mem.current_role
          /\ mem' = keeper_node_active_state(mem, out, reply, now,
                                             networkPartitionTimeout, replica)
    /\ reportPgIsRunning' =
          ReportPgIsRunning(mem.current_role, pgIsRunning,
                            pgFirstStartFailureTs, pgStartRetries, now,
                            restartFailureTimeout, restartFailureMaxRetries)
    /\ pc' = "active"
    /\ UNCHANGED <<file, now, pgRunning, pgIsRunning, ensured, ensureStarted,
                   ensureStopped, transition, pgFirstStartFailureTs,
                   pgStartRetries>>
    /\ UNCHANGED controlVars
    /\ UNCHANGED pgFrame
    /\ UNCHANGED regVars
    /\ UNCHANGED <<retryVars, tickVars, extraVars>>

\* the rest of the iteration: keeper_ensure_current_state with its tracking
\* of failed starts, and the transition
PgReconcile ==
    /\ pc = "active"
    /\ \E serviceOk \in BOOLEAN, transitionOk \in BOOLEAN :
          LET needStateChange == mem.assigned_role # mem.current_role
              doEnsure ==
                 IF needStateChange
                 THEN keeper_should_ensure_current_state_before_transition(mem)
                 ELSE couldContactMonitor
              request == IF doEnsure
                         THEN EnsureRequest(mem.current_role, pgIsRunning)
                         ELSE "none"
              afterEnsure == ServiceAfter(request, pgRunning, serviceOk)
              tracking ==
                 IF doEnsure /\ mem.current_role \in RunningRoles
                 THEN keeper_ensure_postgres_is_running(pgIsRunning,
                         mem.current_role = PRIMARY_STATE, serviceOk,
                         pgFirstStartFailureTs, pgStartRetries, now)
                 ELSE [pgFirstStartFailureTs |-> pgFirstStartFailureTs,
                       pgStartRetries |-> pgStartRetries]
          IN
          /\ tracking.pgStartRetries <= MaxStartRetries
          /\ ensured' = doEnsure
          /\ ensureStarted' = (request = "start")
          /\ ensureStopped' = (request = "stop")
          /\ pgFirstStartFailureTs' = tracking.pgFirstStartFailureTs
          /\ pgStartRetries' = tracking.pgStartRetries
          /\ IF needStateChange
             THEN /\ mem' = FsmReach(mem, transitionOk)
                  /\ transition' = IF transitionOk THEN "ok" ELSE "failed"
                  /\ pgRunning' = TransitionService(mem.assigned_role,
                                                    afterEnsure, transitionOk)
             ELSE /\ transitionOk
                  /\ mem' = mem
                  /\ transition' = "none"
                  /\ pgRunning' = afterEnsure
          /\ request = "none" => serviceOk
    /\ pc' = "acted"
    /\ UNCHANGED <<file, now, pgIsRunning, outcome, reported,
                   reportPgIsRunning>>
    /\ UNCHANGED controlVars
    /\ UNCHANGED pgFrame
    /\ UNCHANGED regVars
    /\ UNCHANGED <<retryVars, tickVars, extraVars>>

\* keeper_store_state at the end of the iteration, when it works
PgStoreState ==
    /\ pc = "acted"
    /\ file' = keeper_state_write(file, mem, TRUE)
    /\ pc' = "start"
    /\ UNCHANGED <<mem, now, pgRunning, pgIsRunning>>
    /\ UNCHANGED <<outcome, reported, ensured, ensureStarted, ensureStopped,
                   transition>>
    /\ UNCHANGED reportVars
    /\ UNCHANGED controlVars
    /\ UNCHANGED <<networkPartitionTimeout, replica, monitorCut, hasReplica,
                   selfAssigned>>
    /\ UNCHANGED regVars
    /\ UNCHANGED <<retryVars, tickVars, extraVars>>

\* between two iterations: a second passes, or the clock is set back
PgClock ==
    /\ pc = "start"
    /\ now' \in (1..MaxTime) \ {now}
    /\ now' = now + 1 \/ now' < now
    /\ UNCHANGED <<pc, file, mem, pgRunning, pgIsRunning, pgFirstStartFailureTs,
                   pgStartRetries, reportPgIsRunning>>
    /\ UNCHANGED iterVars
    /\ UNCHANGED controlVars
    /\ UNCHANGED <<networkPartitionTimeout, replica, monitorCut,
                   restartFailureTimeout, restartFailureMaxRetries>>
    /\ UNCHANGED regVars
    /\ UNCHANGED <<retryVars, tickVars, extraVars>>

\* between two iterations: Postgres crashes or is started by hand, on the
\* configured port or on another one
PgPostgresChanges ==
    /\ pc = "start"
    /\ \E running \in BOOLEAN, port \in BOOLEAN :
          /\ pgRunning' = running
          /\ portMatches' = port
          /\ <<running, port>> # <<pgRunning, portMatches>>
    /\ UNCHANGED <<pc, file, mem, now, pgIsRunning>>
    /\ UNCHANGED iterVars
    /\ UNCHANGED reportVars
    /\ UNCHANGED <<system_identifier, control_system_identifier, pgStateUpdated>>
    /\ UNCHANGED <<networkPartitionTimeout, replica, monitorCut>>
    /\ UNCHANGED regVars
    /\ UNCHANGED <<retryVars, tickVars, extraVars>>

\* between two iterations: PGDATA is replaced by another cluster
PgDataReplaced ==
    /\ pc = "start"
    /\ control_system_identifier' \in
          (1..MaxSystemIdentifier) \ {control_system_identifier}
    /\ UNCHANGED <<pc, file, mem, now, pgRunning, pgIsRunning>>
    /\ UNCHANGED iterVars
    /\ UNCHANGED reportVars
    /\ UNCHANGED <<system_identifier, portMatches, pgStateUpdated>>
    /\ UNCHANGED <<networkPartitionTimeout, replica, monitorCut>>
    /\ UNCHANGED regVars
    /\ UNCHANGED <<retryVars, tickVars, extraVars>>

PgNext ==
    \/ PgLoopBegin
    \/ PgNodeActive
    \/ PgReconcile
    \/ PgStoreState
    \/ PgClock
    \/ PgPostgresChanges
    \/ PgDataReplaced

PgSpec == PgInit /\ [][PgNext]_vars

(***************************************************************************)
(* The connection retry policy (pgsql.c): the sleep time with decorrelated *)
(* jitter and the expiry of the policy.                                    *)
(***************************************************************************)
\* what the retry loops leave alone: the keeper, its state and its Postgres
keeperVars == <<file, mem, now, networkPartitionTimeout, pgRunning,
                pgIsRunning, replica, monitorCut, iterVars, regVars,
                reportVars, controlVars, tickVars, extraVars>>

KeeperBaseIdle ==
    /\ networkPartitionTimeout = MaxPartitionTimeout
    /\ file = BlankState
    /\ mem = BlankState
    /\ fileExists = TRUE
    /\ monitor_pgsql = NoConnection
    /\ monitorRegistered = FALSE
    /\ assignedState = NO_STATE
    /\ retries = 0
    /\ failedStep = "none"
    /\ pgRunning = FALSE
    /\ pgIsRunning = FALSE
    /\ replica = FALSE
    /\ monitorCut = FALSE
    /\ outcome = "none"
    /\ reported = NO_STATE
    /\ hasReplica = FALSE
    /\ selfAssigned = FALSE
    /\ ensured = FALSE
    /\ ensureStarted = FALSE
    /\ ensureStopped = FALSE
    /\ transition = "none"
    /\ ReportIdle
    /\ ControlIdle
    /\ TickIdle

KeeperIdle == KeeperBaseIdle /\ ExtraIdle

\* C integer division truncates towards zero
CDiv(a, b) ==
    IF (a >= 0) = (b > 0)
    THEN (IF a >= 0 THEN a ELSE -a) \div (IF b > 0 THEN b ELSE -b)
    ELSE -((IF a >= 0 THEN a ELSE -a) \div (IF b > 0 THEN b ELSE -b))

\* the largest value of pg_lrand48()
RAND_MAX == 2147483647

\* #define min(a, b) (a < b ? a : b)
min(a, b) == IF a < b THEN a ELSE b

\* random_between(M, N) divides by N - M + 1 and then by the quotient plus
\* one: the behaviour is undefined when either is zero
random_between_undefined(M, N) ==
    IF N - M + 1 = 0 THEN TRUE ELSE CDiv(RAND_MAX, N - M + 1) + 1 = 0

\* random_between(M, N) where drawn is what pg_lrand48() returned
random_between(M, N, drawn) ==
    M + CDiv(drawn, CDiv(RAND_MAX, N - M + 1) + 1)

\* a mutant that forgets the cap
pgsql_compute_sleep_time_uncapped(policy, sleepTime) ==
    [policy EXCEPT !.sleepTime = sleepTime, !.attempts = @ + 1]

\* pgsql_compute_connection_retry_sleep_time, given the value that
\* random_between(baseSleepTime, previousSleepTime * 3) produced
pgsql_compute_connection_retry_sleep_time(policy, sleepTime) ==
    [policy EXCEPT !.sleepTime = min(policy.maxSleepTime, sleepTime),
                   !.attempts = @ + 1]

\* the values of pg_lrand48() that are tried: both ends, the middle, and the
\* one that makes the first sleep of a 1000 ms base a third of the base
FirstSleepOneThird == 1433804544
RandomDraws == {0, RAND_MAX \div 2, FirstSleepOneThird, RAND_MAX}

\* what an int may hold after the undefined division
UndefinedSleepTimes == {-1, 0, RAND_MAX}

\* pgsql_set_monitor_interactive_retry_policy: cap and first sleep, in ms
MonitorInteractiveCap == 5000
MonitorInteractiveBase == 1000
\* "up to 2 seconds of sleep time in between attempts"
InitCap == 2000

SleepInit ==
    /\ pc = "retrying"
    /\ now = 1
    /\ KeeperIdle
    /\ \E cap \in {InitCap, MonitorInteractiveCap} :
          retryPolicy = [NoPolicy EXCEPT !.maxT = MaxRetryTime, !.maxR = -1,
                            !.maxSleepTime = cap,
                            !.baseSleepTime = MonitorInteractiveBase,
                            !.startTime = 1]
    /\ registerPolicy = NoPolicy
    /\ sleepMs = 0
    /\ asked = "none"
    /\ status = "PG_CONNECTION_BAD"
    /\ sqlstate = "none"

\* one more sleep time is computed, the division being defined
ComputeSleepTime ==
    /\ pc = "retrying"
    /\ retryPolicy.attempts < MaxSleepAttempts
    /\ ~random_between_undefined(retryPolicy.baseSleepTime,
                                 retryPolicy.sleepTime * 3)
    /\ \E drawn \in RandomDraws :
          retryPolicy' = pgsql_compute_connection_retry_sleep_time(retryPolicy,
                            random_between(retryPolicy.baseSleepTime,
                                           retryPolicy.sleepTime * 3, drawn))
    /\ sleepMs' = retryPolicy'.sleepTime
    /\ UNCHANGED <<pc, registerPolicy, asked, status, sqlstate>>
    /\ UNCHANGED keeperVars

\* ... the division being by zero: the process is killed (SIGFPE), or the
\* division leaves some value
ComputeSleepTimeUndefined ==
    /\ pc = "retrying"
    /\ retryPolicy.attempts < MaxSleepAttempts
    /\ random_between_undefined(retryPolicy.baseSleepTime,
                                retryPolicy.sleepTime * 3)
    /\ \/ /\ pc' = "sigfpe"
          /\ UNCHANGED <<retryPolicy, sleepMs>>
       \/ /\ \E sleepTime \in UndefinedSleepTimes :
                retryPolicy' =
                   pgsql_compute_connection_retry_sleep_time(retryPolicy,
                                                             sleepTime)
          /\ sleepMs' = retryPolicy'.sleepTime
          /\ pc' = pc
    /\ UNCHANGED <<registerPolicy, asked, status, sqlstate>>
    /\ UNCHANGED keeperVars

SleepNext ==
    \/ ComputeSleepTime
    \/ ComputeSleepTimeUndefined

SleepSpec == SleepInit /\ [][SleepNext]_vars

(***************************************************************************)
(* The retry loops: a connection to the monitor is opened                  *)
(* (pgsql_open_connection, pgsql_retry_open_connection) and the            *)
(* registration query is sent (monitor_register_node), while the clock     *)
(* moves and signals arrive.                                               *)
(***************************************************************************)
MaxRetryAttempts == 2

Signals == {"asked_to_stop", "asked_to_stop_fast", "asked_to_quit",
            "asked_to_reload"}

\* (now - retryPolicy->startTime) >= retryPolicy->maxT, a comparison of
\* uint64_t: when the clock is behind startTime the difference wraps around
\* to a huge value
ElapsedAtLeast(t, startTime, maxT) ==
    IF t >= startTime THEN t - startTime >= maxT ELSE TRUE

\* a mutant that never looks at the signals
pgsql_retry_policy_expired_nosignal(policy, t, signalled) ==
    \/ ElapsedAtLeast(t, policy.startTime, policy.maxT)
    \/ policy.maxR > 0 /\ policy.attempts >= policy.maxR

\* a mutant that gives up only after one more attempt than maxR
pgsql_retry_policy_expired_late(policy, t, signalled) ==
    \/ signalled
    \/ ElapsedAtLeast(t, policy.startTime, policy.maxT)
    \/ policy.maxR > 0 /\ policy.attempts > policy.maxR

pgsql_retry_policy_expired(policy, t, signalled) ==
    \/ signalled
    \/ ElapsedAtLeast(t, policy.startTime, policy.maxT)
    \/ policy.maxR > 0 /\ policy.attempts >= policy.maxR

\* the attempts counter only matters up to maxR: it is kept finite
SaturateAttempts(policy) ==
    [policy EXCEPT !.attempts = min(@, MaxSleepAttempts)]

\* the random draws of this specification
RetryDraws == {0}

\* pgsql_compute_connection_retry_sleep_time with its random draw: the
\* policies the call may leave
NextPolicies(policy) ==
    IF random_between_undefined(policy.baseSleepTime, policy.sleepTime * 3)
    THEN { SaturateAttempts(
              pgsql_compute_connection_retry_sleep_time(policy, sleepTime)) :
           sleepTime \in UndefinedSleepTimes }
    ELSE { SaturateAttempts(
              pgsql_compute_connection_retry_sleep_time(policy,
                 random_between(policy.baseSleepTime, policy.sleepTime * 3,
                                drawn))) :
           drawn \in RetryDraws }

\* pgsql_set_main_loop_retry_policy, pgsql_set_init_retry_policy, and a
\* policy with a bounded number of attempts
RetryPolicies ==
    { [NoPolicy EXCEPT !.maxT = maxT, !.maxR = maxR,
                       !.maxSleepTime = InitCap,
                       !.baseSleepTime = MonitorInteractiveBase] :
      maxT \in 1..MaxRetryTime, maxR \in {-1, 0, MaxRetryAttempts} }

\* what the monitor answers to the register_node query
ERRCODE_OBJECT_IN_USE == "55006"
ERRCODE_EXCLUSION_VIOLATION == "23P01"
RegisterAnswers == {"ok", ERRCODE_OBJECT_IN_USE, ERRCODE_EXCLUSION_VIOLATION,
                    "other"}

\* a mutant that retries on either error code
register_may_retry_any(code, policy, t, signalled) ==
    /\ code \in {ERRCODE_OBJECT_IN_USE, ERRCODE_EXCLUSION_VIOLATION}
    /\ ~pgsql_retry_policy_expired(policy, t, signalled)

\* a mutant that retries without asking the policy
register_may_retry_always(code, policy, t, signalled) ==
    code = ERRCODE_OBJECT_IN_USE

\* monitor_register_node: the failed query is sent again when ...
register_may_retry(code, policy, t, signalled) ==
    /\ code = ERRCODE_OBJECT_IN_USE
    /\ ~pgsql_retry_policy_expired(policy, t, signalled)

RetryRunning == pc \in {"r_connect", "r_check", "r_ping", "r_query"}

\* the caller of monitor_register_node prepares its policy and starts the
\* clock of its time budget
RetryInit ==
    /\ pc = "r_connect"
    /\ now = 1
    /\ KeeperIdle
    /\ retryPolicy \in RetryPolicies
    /\ \E maxT \in 1..MaxRetryTime :
          registerPolicy = [NoPolicy EXCEPT !.maxT = maxT, !.maxR = -1,
                               !.maxSleepTime = InitCap,
                               !.baseSleepTime = MonitorInteractiveBase,
                               !.startTime = 1]
    /\ sleepMs = 0
    /\ asked = "none"
    /\ status = "PG_CONNECTION_BAD"
    /\ sqlstate = "none"

\* pgsql_open_connection: one PQconnectdb; when it fails, either give up or
\* enter pgsql_retry_open_connection (which sets attempts to 1)
ConnOpen ==
    /\ pc = "r_connect"
    /\ \E connectOk \in BOOLEAN :
          IF connectOk
          THEN /\ status' = "PG_CONNECTION_OK"
               /\ pc' = "r_query"
               /\ UNCHANGED retryPolicy
          ELSE IF retryPolicy.maxR = 0
               THEN /\ status' = "PG_CONNECTION_BAD"
                    /\ pc' = "r_connect_failed"
                    /\ UNCHANGED retryPolicy
               ELSE /\ retryPolicy' = [retryPolicy EXCEPT !.startTime = now,
                                                          !.attempts = 1]
                    /\ pc' = "r_check"
                    /\ UNCHANGED status
    /\ UNCHANGED <<registerPolicy, sleepMs, asked, sqlstate>>
    /\ UNCHANGED keeperVars

\* pgsql_retry_open_connection, the head of its loop: give up when the
\* policy has expired, otherwise compute the sleep time and sleep
ConnRetryCheck ==
    /\ pc = "r_check"
    /\ IF pgsql_retry_policy_expired(retryPolicy, now, asked # "none")
       THEN /\ status' = "PG_CONNECTION_BAD"
            /\ pc' = "r_gave_up"
            /\ UNCHANGED <<retryPolicy, sleepMs>>
       ELSE /\ retryPolicy' \in NextPolicies(retryPolicy)
            /\ sleepMs' = retryPolicy'.sleepTime
            /\ pc' = "r_ping"
            /\ UNCHANGED status
    /\ UNCHANGED <<registerPolicy, asked, sqlstate>>
    /\ UNCHANGED keeperVars

\* ... then PQping: when the server answers, PQconnectdb; every other
\* answer goes back to the head of the loop
ConnRetryPing ==
    /\ pc = "r_ping"
    /\ \E connected \in BOOLEAN :
          IF connected
          THEN /\ status' = "PG_CONNECTION_OK"
               /\ pc' = "r_query"
          ELSE /\ pc' = "r_check"
               /\ UNCHANGED status
    /\ UNCHANGED <<retryPolicy, registerPolicy, sleepMs, asked, sqlstate>>
    /\ UNCHANGED keeperVars

\* monitor_register_node: the query and what follows its failure
RegisterQuery ==
    /\ pc = "r_query"
    /\ \E answer \in RegisterAnswers :
          /\ sqlstate' = answer
          /\ IF answer = "ok"
             THEN /\ pc' = "r_registered"
                  /\ UNCHANGED <<registerPolicy, sleepMs>>
             ELSE IF register_may_retry(answer, registerPolicy, now,
                                        asked # "none")
                  THEN /\ registerPolicy' \in NextPolicies(registerPolicy)
                       /\ sleepMs' = registerPolicy'.sleepTime
                       /\ pc' = "r_connect"
                  ELSE /\ pc' = "r_failed"
                       /\ UNCHANGED <<registerPolicy, sleepMs>>
    /\ UNCHANGED <<retryPolicy, asked, status>>
    /\ UNCHANGED keeperVars

retryFrame == <<file, networkPartitionTimeout, pgRunning, pgIsRunning,
                replica, monitorCut, iterVars, regVars, reportVars,
                controlVars, tickVars, extraVars>>

\* time passes
RetryTick ==
    /\ RetryRunning
    /\ now < MaxTime
    /\ now' = now + 1
    /\ UNCHANGED <<pc, mem, retryVars, retryFrame>>

\* the wall clock is set back
RetryClockSetBack ==
    /\ RetryRunning
    /\ \E t \in 0..(now - 1) : now' = t
    /\ UNCHANGED <<pc, mem, retryVars, retryFrame>>

\* a signal handler raises its flag
RetrySignal ==
    /\ RetryRunning
    /\ asked = "none"
    /\ asked' \in Signals
    /\ UNCHANGED <<pc, retryPolicy, registerPolicy, sleepMs, status, sqlstate>>
    /\ UNCHANGED keeperVars

RetryNext ==
    \/ ConnOpen
    \/ ConnRetryCheck
    \/ ConnRetryPing
    \/ RegisterQuery
    \/ RetryTick
    \/ RetryClockSetBack
    \/ RetrySignal

RetrySpec == RetryInit /\ [][RetryNext]_vars

\* the same with a clock that only moves forward; every step of the keeper
\* that can be taken is taken in the end, and time passes
RetryFairNext ==
    \/ ConnOpen
    \/ ConnRetryCheck
    \/ ConnRetryPing
    \/ RegisterQuery
    \/ RetryTick
    \/ RetrySignal

RetryFairSpec ==
    /\ RetryInit
    /\ [][RetryFairNext]_vars
    /\ WF_vars(ConnOpen)
    /\ WF_vars(ConnRetryCheck)
    /\ WF_vars(ConnRetryPing)
    /\ WF_vars(RegisterQuery)
    /\ WF_vars(RetryTick)

(***************************************************************************)
(* One iteration of keeper_node_active_loop as far as the monitor is       *)
(* concerned: reload, signals, the version check of keeper_node_active     *)
(* with its connection, monitor_node_active, the end of the iteration,     *)
(* and the supervisor that restarts the process.                           *)
(***************************************************************************)
MaxConnAttempts == 3

\* the connect timeout of the interactive policy
pgconnect_timeout == MaxRetryTime

\* pgsql_set_interactive_retry_policy, what pgsql_init installs
InteractivePolicy ==
    [NoPolicy EXCEPT !.maxT = pgconnect_timeout, !.maxR = -1,
                     !.maxSleepTime = InitCap,
                     !.baseSleepTime = MonitorInteractiveBase]

\* pgsql_set_retry_policy changes maxT, maxR, maxSleepTime and baseSleepTime
pgsql_set_main_loop_retry_policy(policy) ==
    [policy EXCEPT !.maxT = MaxRetryTime, !.maxR = 0,
                   !.maxSleepTime = InitCap,
                   !.baseSleepTime = MonitorInteractiveBase]

\* ... and pgsql_init installs the interactive policy in the same way
pgsql_init(policy) ==
    [policy EXCEPT !.maxT = pgconnect_timeout, !.maxR = -1,
                   !.maxSleepTime = InitCap,
                   !.baseSleepTime = MonitorInteractiveBase]

\* the version compiled into pg_autoctl and the versions a monitor may have
PG_AUTOCTL_EXTENSION_VERSION == "1.4"
ExtensionVersions == {"1.4", "1.5"}

\* a mutant that accepts any version the monitor has installed
keeper_check_monitor_extension_version_any(queryOk, parsedOK, installedVersion) ==
    queryOk /\ parsedOK

keeper_check_monitor_extension_version(queryOk, parsedOK, installedVersion) ==
    /\ queryOk
    /\ parsedOK
    /\ installedVersion = PG_AUTOCTL_EXTENSION_VERSION

\* how the version check ended, for the record
VersionCheckResult(queryOk, parsedOK, installedVersion) ==
    IF ~queryOk THEN "query_failed"
    ELSE IF ~parsedOK THEN "unparsed"
    ELSE IF installedVersion # PG_AUTOCTL_EXTENSION_VERSION THEN "differs"
    ELSE "equal"

\* a mutant that exits whenever the version check failed
failed_check_exits_always(connStatus) == TRUE

\* keeper_node_active, after a failed version check: return false when the
\* connection is not PG_CONNECTION_OK, exit(EXIT_CODE_MONITOR) otherwise
failed_check_exits(connStatus) == connStatus = "PG_CONNECTION_OK"

\* the signals keeper_node_active_loop looks at
TickSignals == {"asked_to_stop", "asked_to_stop_fast", "asked_to_reload"}

TickRunning ==
    pc \in {"t_top", "t_version", "t_vretry", "t_vping", "t_vquery",
            "t_node_active", "t_rest"}

tickFrame == <<file, mem, networkPartitionTimeout, pgRunning, pgIsRunning,
               replica, monitorCut, iterVars, regVars, reportVars,
               controlVars, registerPolicy, sqlstate, extraVars>>

\* the node-active process starts: keeper_init has called monitor_init
TickInit ==
    /\ pc = "t_top"
    /\ now = 1
    /\ KeeperIdle
    /\ retryPolicy = InteractivePolicy
    /\ registerPolicy = NoPolicy
    /\ sleepMs = 0
    /\ asked = "none"
    /\ status = "PG_CONNECTION_BAD"
    /\ sqlstate = "none"

\* the head of the loop, down to the call of keeper_node_active:
\* reload_configuration (which may or may not reach monitor_init), the stop
\* signals, check_pidfile, keeper_load_state (continue when it fails) and
\* keeper_update_pg_state (a warning when it fails)
TickTop ==
    /\ pc = "t_top"
    /\ \E reinit \in BOOLEAN, loadOk \in BOOLEAN :
          LET reload == asked = "asked_to_reload" \/ firstLoop
              askedAfter == IF asked = "asked_to_reload" THEN "none"
                            ELSE asked
          IN  /\ retryPolicy' = IF reload /\ reinit
                                THEN pgsql_init(retryPolicy)
                                ELSE retryPolicy
              /\ asked' = askedAfter
              /\ IF askedAfter = "asked_to_stop"
                 THEN pc' = "t_stopped" /\ exitCode' = exitCode
                 ELSE IF ~pidfileOurs
                 THEN pc' = "t_exited" /\ exitCode' = "EXIT_CODE_QUIT"
                 ELSE IF askedAfter = "asked_to_stop_fast"
                 THEN pc' = "t_stopped" /\ exitCode' = exitCode
                 ELSE IF ~loadOk
                 THEN pc' = "t_top" /\ exitCode' = exitCode
                 ELSE pc' = "t_version" /\ exitCode' = exitCode
    /\ versionCheck' = "none"
    /\ nodeActiveSent' = FALSE
    /\ connAttempts' = 0
    /\ UNCHANGED <<now, sleepMs, status, firstLoop, pidfileOurs>>
    /\ UNCHANGED tickFrame

\* the version check could not connect: keeper_node_active returns false,
\* or exits
TickVersionCheckFailed(connStatus) ==
    IF failed_check_exits(connStatus)
    THEN pc' = "t_exited" /\ exitCode' = "EXIT_CODE_MONITOR"
    ELSE pc' = "t_rest" /\ exitCode' = exitCode

\* keeper_check_monitor_extension_version opens the connection
\* (pgsql_open_connection)
TickVersionConnect ==
    /\ pc = "t_version"
    /\ connAttempts' = 1
    /\ \E connectOk \in BOOLEAN :
          IF connectOk
          THEN /\ status' = "PG_CONNECTION_OK"
               /\ pc' = "t_vquery"
               /\ UNCHANGED <<retryPolicy, versionCheck, exitCode>>
          ELSE IF retryPolicy.maxR = 0
               THEN /\ status' = "PG_CONNECTION_BAD"
                    /\ versionCheck' = "connfail"
                    /\ TickVersionCheckFailed(status')
                    /\ UNCHANGED retryPolicy
               ELSE /\ retryPolicy' = [retryPolicy EXCEPT !.startTime = now,
                                                          !.attempts = 1]
                    /\ pc' = "t_vretry"
                    /\ UNCHANGED <<status, versionCheck, exitCode>>
    /\ UNCHANGED <<now, sleepMs, asked, firstLoop, pidfileOurs, nodeActiveSent>>
    /\ UNCHANGED tickFrame

\* pgsql_retry_open_connection, the head of its loop
TickVersionRetryCheck ==
    /\ pc = "t_vretry"
    /\ IF pgsql_retry_policy_expired(retryPolicy, now, asked # "none")
       THEN /\ status' = "PG_CONNECTION_BAD"
            /\ versionCheck' = "connfail"
            /\ TickVersionCheckFailed(status')
            /\ UNCHANGED <<retryPolicy, sleepMs>>
       ELSE /\ retryPolicy' \in NextPolicies(retryPolicy)
            /\ sleepMs' = retryPolicy'.sleepTime
            /\ pc' = "t_vping"
            /\ UNCHANGED <<status, versionCheck, exitCode>>
    /\ UNCHANGED <<now, asked, firstLoop, pidfileOurs, nodeActiveSent,
                   connAttempts>>
    /\ UNCHANGED tickFrame

\* ... after the sleep, PQping and PQconnectdb: one more attempt
TickVersionRetryPing ==
    /\ pc = "t_vping"
    /\ connAttempts' = min(connAttempts + 1, MaxConnAttempts)
    /\ \E connected \in BOOLEAN :
          IF connected
          THEN /\ status' = "PG_CONNECTION_OK"
               /\ pc' = "t_vquery"
          ELSE /\ pc' = "t_vretry"
               /\ UNCHANGED status
    /\ UNCHANGED <<now, retryPolicy, sleepMs, asked, firstLoop, pidfileOurs,
                   versionCheck, nodeActiveSent, exitCode>>
    /\ UNCHANGED tickFrame

\* monitor_get_extension_version on the open connection, the comparison of
\* keeper_check_monitor_extension_version, and what keeper_node_active does
\* with its result; a failed query leaves status at PG_CONNECTION_OK
TickVersionQuery ==
    /\ pc = "t_vquery"
    /\ \E queryOk \in BOOLEAN, parsedOK \in BOOLEAN,
          installedVersion \in ExtensionVersions :
          /\ versionCheck' = VersionCheckResult(queryOk, parsedOK,
                                                installedVersion)
          /\ IF keeper_check_monitor_extension_version(queryOk, parsedOK,
                                                       installedVersion)
             THEN /\ retryPolicy' = pgsql_set_main_loop_retry_policy(retryPolicy)
                  /\ pc' = "t_node_active"
                  /\ exitCode' = exitCode
             ELSE /\ TickVersionCheckFailed(status)
                  /\ UNCHANGED retryPolicy
    /\ UNCHANGED <<now, sleepMs, asked, status, firstLoop, pidfileOurs,
                   nodeActiveSent, connAttempts>>
    /\ UNCHANGED tickFrame

\* monitor_node_active, on the connection the version check left open
TickNodeActive ==
    /\ pc = "t_node_active"
    /\ nodeActiveSent' = TRUE
    /\ pc' = "t_rest"
    /\ UNCHANGED <<now, retryPolicy, sleepMs, asked, status, firstLoop,
                   pidfileOurs, versionCheck, connAttempts, exitCode>>
    /\ UNCHANGED tickFrame

\* the end of the iteration: the connections are closed, the state is
\* stored (a failure only sets transitionFailed), the stop signals are
\* looked at and firstLoop is over
TickRest ==
    /\ pc = "t_rest"
    /\ pc' = IF asked \in {"asked_to_stop", "asked_to_stop_fast"}
             THEN "t_stopped" ELSE "t_top"
    /\ firstLoop' = IF asked = "asked_to_stop_fast" THEN firstLoop ELSE FALSE
    /\ UNCHANGED <<now, retryPolicy, sleepMs, asked, status, pidfileOurs,
                   versionCheck, nodeActiveSent, connAttempts, exitCode>>
    /\ UNCHANGED tickFrame

\* the supervisor starts the node-active process again (RP_PERMANENT)
TickSupervisorRestart ==
    /\ pc = "t_exited"
    /\ pc' = "t_top"
    /\ retryPolicy' = InteractivePolicy
    /\ status' = "PG_CONNECTION_BAD"
    /\ asked' = "none"
    /\ sleepMs' = 0
    /\ firstLoop' = TRUE
    /\ pidfileOurs' = TRUE
    /\ versionCheck' = "none"
    /\ nodeActiveSent' = FALSE
    /\ connAttempts' = 0
    /\ exitCode' = "none"
    /\ UNCHANGED now
    /\ UNCHANGED tickFrame

\* time passes
TickClock ==
    /\ TickRunning
    /\ now < MaxTime
    /\ now' = now + 1
    /\ UNCHANGED <<pc, retryPolicy, sleepMs, asked, status, tickVars>>
    /\ UNCHANGED tickFrame

\* a signal handler raises its flag
TickSignal ==
    /\ TickRunning
    /\ asked = "none"
    /\ asked' \in TickSignals
    /\ UNCHANGED <<pc, now, retryPolicy, sleepMs, status, tickVars>>
    /\ UNCHANGED tickFrame

\* another process takes the PID file over
TickPidfileLost ==
    /\ TickRunning
    /\ pidfileOurs
    /\ pidfileOurs' = FALSE
    /\ UNCHANGED <<pc, now, retryPolicy, sleepMs, asked, status, firstLoop,
                   versionCheck, nodeActiveSent, connAttempts, exitCode>>
    /\ UNCHANGED tickFrame

TickNext ==
    \/ TickTop
    \/ TickVersionConnect
    \/ TickVersionRetryCheck
    \/ TickVersionRetryPing
    \/ TickVersionQuery
    \/ TickNodeActive
    \/ TickRest
    \/ TickSupervisorRestart
    \/ TickClock
    \/ TickSignal
    \/ TickPidfileLost

(***************************************************************************)
(* The peers of the node: the cached otherNodes, the rules of pg_hba.conf  *)
(* that keeper_refresh_other_nodes maintains, and the replication slots    *)
(* that keeper_ensure_current_state maintains.                             *)
(***************************************************************************)
\* every variable of the keeper but pc and those of its peers and
\* configuration
coreVars == <<file, mem, now, networkPartitionTimeout, pgRunning,
              pgIsRunning, replica, monitorCut, iterVars, regVars,
              reportVars, controlVars, retryVars, tickVars>>

\* the host names a peer may be known under
Hosts == {"h1", "h2"}

NodeAddress == [nodeId : 1..MaxNodeId, host : Hosts]

\* the entries of an array that count
ListOf(array) == SubSeq(array.nodes, 1, array.count)

NodeIdsOf(array) == {array.nodes[i].nodeId : i \in 1..array.count}

\* what get_other_nodes returns: ORDER BY node_id, at most
\* NODE_ARRAY_MAX_COUNT rows, a node id being the key of a node
MonitorNodeLists ==
    {rows \in UNION {[1..n -> NodeAddress] : n \in 0..NODE_ARRAY_MAX_COUNT} :
        \A i \in 1..Len(rows), j \in 1..Len(rows) :
           i < j => rows[i].nodeId < rows[j].nodeId}

\* parseNodeArray: sets the count and fills the first rows of the array it
\* is given; the entries that follow keep what they held
parseNodeArray(array, rows) ==
    [count |-> Len(rows),
     nodes |-> [i \in 1..NODE_ARRAY_MAX_COUNT |->
                  IF i <= Len(rows) THEN rows[i] ELSE array.nodes[i]]]

\* diffNodesArray->count++; diffNodesArray->nodes[diffIndex++] = *currNode
DiffAdd(diff, currNode) ==
    [count |-> diff.count + 1,
     nodes |-> [diff.nodes EXCEPT ![diff.count + 1] = currNode]]

\* the for loop of diff_nodesArray, from currIndex on (indexes count from 0)
RECURSIVE diff_loop(_, _, _, _, _)
diff_loop(previous, current, currIndex, prevIndex, diff) ==
    IF currIndex >= current.count
    THEN diff
    ELSE LET currNode == current.nodes[currIndex + 1]
             prevNode == previous.nodes[prevIndex + 1]
         IN
         IF currNode.nodeId < prevNode.nodeId
         THEN diff_loop(previous, current, currIndex + 1, prevIndex,
                        DiffAdd(diff, currNode))
         ELSE IF currNode.nodeId = prevNode.nodeId
         THEN diff_loop(previous, current, currIndex + 1,
                        IF prevIndex < previous.count
                        THEN prevIndex + 1 ELSE prevIndex,
                        IF currNode.host # prevNode.host
                        THEN DiffAdd(diff, currNode) ELSE diff)
         ELSE DiffAdd(diff, currNode)

\* a diff that holds every entry of the current array
diff_nodesArray_all(previous, current) == current

\* a diff that never holds anything
diff_nodesArray_none(previous, current) == EmptyNodesArray

diff_nodesArray(previous, current) ==
    IF previous.count = 0
    THEN current
    ELSE diff_loop(previous, current, 0, 0, EmptyNodesArray)

\* pghba_ensure_host_rules_exist: the rules of every host of the diff exist
\* afterwards
pghba_ensure_host_rules_exist(rules, diff) ==
    rules \cup {diff.nodes[i].host : i \in 1..diff.count}

\* slot_name ~ REPLICATION_SLOT_NAME_PATTERN: the name begins with the
\* default name and an underscore
MatchesSlotNamePattern(name) ==
    /\ Len(name) >= 2
    /\ name[1] = REPLICATION_SLOT_NAME_DEFAULT
    /\ name[2] = "_"

\* slot_name ~ REPLICATION_SLOT_NAME_DEFAULT: the default name occurs in
\* the name
MatchesSlotNameDefault(name) ==
    \E i \in 1..Len(name) : name[i] = REPLICATION_SLOT_NAME_DEFAULT

PhysicalSlot(name) == [slot_name |-> name, slot_type |-> "physical"]

\* slots that pg_auto_failover did not create for a peer: the slot that
\* versions before node ids used, a slot of the user, and a logical slot
LegacySlot == PhysicalSlot(<<REPLICATION_SLOT_NAME_DEFAULT>>)
UserSlot == PhysicalSlot(<<"user_slot">>)
LogicalSlot ==
    [slot_name |-> <<REPLICATION_SLOT_NAME_DEFAULT, "_", 0>>,
     slot_type |-> "logical"]

ForeignSlots == {LegacySlot, UserSlot, LogicalSlot}

\* the nodes CTE of both maintenance queries
SlotNamesOf(array) == {SlotName(id) : id \in NodeIdsOf(array)}

\* the created CTE of both maintenance queries
SlotsCreated(pgrs, array) ==
    {PhysicalSlot(name) :
       name \in {n \in SlotNamesOf(array) :
                   \A s \in pgrs : s.slot_name # n}}

\* the dropped CTE of a query that drops every slot that is not of a peer
SlotsDropped_any(pgrs, array) ==
    {s \in pgrs : s.slot_name \notin SlotNamesOf(array)}

\* the dropped CTE of pgsql_replication_slot_drop_removed
SlotsDropped_primary(pgrs, array) ==
    {s \in pgrs :
       /\ s.slot_name \notin SlotNamesOf(array)
       /\ \/ MatchesSlotNamePattern(s.slot_name)
          \/ MatchesSlotNameDefault(s.slot_name)
       /\ s.slot_type = "physical"}

\* the dropped CTE of pgsql_replication_slot_maintain
SlotsDropped_standby(pgrs, array) ==
    {s \in pgrs :
       /\ s.slot_name \notin SlotNamesOf(array)
       /\ MatchesSlotNamePattern(s.slot_name)
       /\ s.slot_type = "physical"}

pgsql_replication_slot_drop_removed(pgrs, array) ==
    (pgrs \ SlotsDropped_primary(pgrs, array)) \cup SlotsCreated(pgrs, array)

pgsql_replication_slot_maintain(pgrs, array) ==
    (pgrs \ SlotsDropped_standby(pgrs, array)) \cup SlotsCreated(pgrs, array)

\* the roles keeper_ensure_current_state is run in
EnsureRoles ==
    RunningRoles \cup {DEMOTED_STATE, CATCHINGUP_STATE, WAIT_PRIMARY_STATE}

\* what the two maintenance queries do to replication slots: the CTEs of
\* pgsql_replication_slot_drop_removed and of pgsql_replication_slot_maintain
SlotOperations_drop_removed == {"create", "drop"}
SlotOperations_maintain == {"create", "drop", "advance"}

\* a keeper_ensure_current_state that maintains the slots in every role
\* with a running Postgres
EnsureSlotOperations_maintain(role, run) ==
    IF run \in {"query", "ok"} THEN SlotOperations_maintain ELSE {}

\* the slot operations that a call of keeper_ensure_current_state issues:
\* the switch on current_role, and the query that is sent when the steps
\* before it succeeded
EnsureSlotOperations(role, run) ==
    IF run \notin {"query", "ok"} THEN {}
    ELSE IF role \in {PRIMARY_STATE, SINGLE_STATE}
    THEN SlotOperations_drop_removed
    ELSE IF role = SECONDARY_STATE THEN SlotOperations_maintain
    ELSE {}

\* the locals of keeper_refresh_other_nodes before it has run
RefreshIdle ==
    /\ previousNodesArray = EmptyNodesArray
    /\ newNodesArray = EmptyNodesArray
    /\ diffNodesArray = EmptyNodesArray
    /\ hbaEdited = FALSE
    /\ hbaReload = FALSE

\* the record of slot maintenance before it has run
MaintainIdle ==
    /\ droppedSlots = {}
    /\ maintained = [role |-> NO_STATE, result |-> "none", operations |-> {}]

\* a node whose Postgres has the three slots that are not of a peer
PeerInit ==
    /\ pc = "peers"
    /\ now = 1
    /\ KeeperBaseIdle
    /\ RetryIdle
    /\ otherNodes = EmptyNodesArray
    /\ RefreshIdle
    /\ hbaRules = {}
    /\ slots = ForeignSlots
    /\ MaintainIdle
    /\ ConfigIdle
    /\ OrderIdle
    /\ OpIdle

\* how a call of keeper_refresh_other_nodes goes: get_other_nodes fails,
\* the HBA edit fails, Postgres is not running, pgsql_reload_conf fails, or
\* every step succeeds
RefreshRuns == {"monitor", "hba", "not_running", "reload", "ok"}

\* keeper_update_group_hba(keeper, &diffNodesArray), for a diff that is not
\* empty; keeper_refresh_other_nodes copies the new array to the cache when
\* it returns true
keeper_update_group_hba(run) ==
    IF run = "hba"
    THEN /\ UNCHANGED <<hbaRules, otherNodes>>
         /\ hbaEdited' = FALSE
         /\ hbaReload' = FALSE
    ELSE /\ hbaRules' = pghba_ensure_host_rules_exist(hbaRules, diffNodesArray')
         /\ hbaEdited' = TRUE
         /\ hbaReload' = (run # "not_running")
         /\ otherNodes' = IF run = "reload" THEN otherNodes ELSE newNodesArray'

\* keeper_refresh_other_nodes(keeper, false), as keeper_node_active calls
\* it, up to its return
keeper_refresh_other_nodes ==
    /\ pc = "peers"
    /\ pc' = "refreshed"
    /\ \E run \in RefreshRuns, rows \in MonitorNodeLists :
          IF run = "monitor"
          THEN /\ rows = <<>>
               /\ UNCHANGED <<otherNodes, previousNodesArray, newNodesArray,
                              diffNodesArray, hbaRules, hbaEdited, hbaReload>>
          ELSE /\ previousNodesArray' = otherNodes
               /\ newNodesArray' = parseNodeArray(EmptyNodesArray, rows)
               /\ diffNodesArray' = diff_nodesArray(otherNodes, newNodesArray')
               /\ IF newNodesArray'.count = 0 \/ diffNodesArray'.count = 0
                  THEN /\ run = "ok"
                       /\ otherNodes' = newNodesArray'
                       /\ hbaEdited' = FALSE
                       /\ hbaReload' = FALSE
                       /\ UNCHANGED hbaRules
                  ELSE keeper_update_group_hba(run)
    /\ UNCHANGED <<slots, droppedSlots, maintained>>
    /\ UNCHANGED <<coreVars, configVars, orderVars, opVars>>

\* how a call of keeper_ensure_current_state goes: Postgres cannot be
\* started, slot maintenance is bypassed, get_other_nodes fails, the
\* maintenance query fails, or every step succeeds
EnsureRuns == {"postgres", "bypass", "monitor", "query", "ok"}

\* keeper_ensure_current_state up to its return: in PRIMARY and SINGLE
\* keeper_drop_replication_slots_for_removed_nodes, in SECONDARY
\* keeper_maintain_replication_slots, which fetches the peers into the cache
\* first; each after keeper_ensure_postgres_is_running.  A query that fails
\* changes nothing.
keeper_ensure_current_state ==
    /\ pc = "peers"
    /\ pc' = "ensured"
    /\ \E role \in EnsureRoles, run \in EnsureRuns, rows \in MonitorNodeLists :
          LET fetched == parseNodeArray(otherNodes, rows)
              after == IF role = SECONDARY_STATE
                       THEN pgsql_replication_slot_maintain(slots, fetched)
                       ELSE pgsql_replication_slot_drop_removed(slots,
                                                                otherNodes)
              fetches == role = SECONDARY_STATE /\ run \in {"query", "ok"}
          IN
          /\ role \notin RunningRoles => run = "ok"
          /\ role # SECONDARY_STATE => run \notin {"bypass", "monitor"}
          /\ ~fetches => rows = <<>>
          /\ maintained' =
                [role |-> role,
                 result |-> IF role \in RunningRoles THEN run ELSE "none",
                 operations |-> EnsureSlotOperations(role, run)]
          /\ otherNodes' = IF fetches THEN fetched ELSE otherNodes
          /\ slots' = IF role \in RunningRoles /\ run = "ok"
                      THEN after ELSE slots
          /\ droppedSlots' = slots \ slots'
    /\ UNCHANGED <<previousNodesArray, newNodesArray, diffNodesArray,
                   hbaRules, hbaEdited, hbaReload>>
    /\ UNCHANGED <<coreVars, configVars, orderVars, opVars>>

\* the function returns to the loop: its locals are gone
PeerReturn ==
    /\ pc \in {"refreshed", "ensured"}
    /\ pc' = "peers"
    /\ previousNodesArray' = EmptyNodesArray
    /\ newNodesArray' = EmptyNodesArray
    /\ diffNodesArray' = EmptyNodesArray
    /\ hbaEdited' = FALSE
    /\ hbaReload' = FALSE
    /\ droppedSlots' = {}
    /\ maintained' = [role |-> NO_STATE, result |-> "none",
                      operations |-> {}]
    /\ UNCHANGED <<otherNodes, hbaRules, slots>>
    /\ UNCHANGED <<coreVars, configVars, orderVars, opVars>>

\* the process is restarted: its memory starts zeroed, pg_hba.conf and the
\* slots of Postgres are what they were
PeerRestart ==
    /\ pc = "peers"
    /\ otherNodes # EmptyNodesArray
    /\ otherNodes' = EmptyNodesArray
    /\ UNCHANGED <<pc, previousNodesArray, newNodesArray, diffNodesArray,
                   hbaRules, hbaEdited, hbaReload, slots, droppedSlots,
                   maintained>>
    /\ UNCHANGED <<coreVars, configVars, orderVars, opVars>>

PeerNext ==
    \/ keeper_refresh_other_nodes
    \/ keeper_ensure_current_state
    \/ PeerReturn
    \/ PeerRestart

PeerSpec == PeerInit /\ [][PeerNext]_vars

(***************************************************************************)
(* The configuration of the node: reload_configuration, and the update of  *)
(* the configuration that keeper_node_active makes from the reply of the   *)
(* monitor.                                                                *)
(***************************************************************************)
\* what this part leaves alone
configFrame == <<file, mem, now, networkPartitionTimeout, pgRunning,
                 pgIsRunning, replica, monitorCut, iterVars, fileExists,
                 monitorRegistered, assignedState, retries, failedStep,
                 reportVars, controlVars, retryVars, tickVars, peerVars,
                 orderVars, opVars>>

\* the values an operator may write to the configuration file
DataDirs == {"/data/a", "/data/b"}
ValidUris == {"postgres://m1", "postgres://m2"}
InvalidUri == "postgres//m3"
NodeNames == {"n1", "n2"}
HostNames == {"host1", "host2"}
Ports == {5432, 5433}
Timeouts == {20, 30}

\* the node ids and groups a reply of the monitor may carry
ReplyNodeIds == {1, 2}
ReplyGroups == {0, 1}

\* keeperState->current_group, set at registration
current_group == BaseConfig.groupId

EditedFiles(old) ==
    {[old EXCEPT !.pgdata = d, !.monitor_pguri = u, !.name = n,
                 !.hostname = h, !.pgport = p,
                 !.network_partition_timeout = t] :
        d \in DataDirs, u \in ValidUris \cup {InvalidUri}, n \in NodeNames,
        h \in HostNames, p \in Ports, t \in Timeouts}

validate_connection_string(url) == url \in ValidUris

\* a monitor_init that leaves the connection string as it is
monitor_init_keep(connectionString, url) == connectionString

\* monitor_init(&monitor, url): pgsql_init copies a valid url to the
\* connection string and returns false for any other
monitor_init(connectionString, url) ==
    IF validate_connection_string(url) THEN url ELSE connectionString

\* keeper_config_update(config, nodeId, groupId): the group and the slot
\* name of the configuration in memory; the file is written next
keeper_config_update(cfg, nodeId, groupId) ==
    [cfg EXCEPT !.groupId = groupId,
                !.replication_slot_name = SlotName(nodeId)]

\* the node id the keeper holds after a reply of the monitor
NodeIdAfterReply_assigned(current, assigned) == assigned

NodeIdAfterReply(current, assigned) == current

\* how reload_configuration goes: no configuration file, the file cannot be
\* read, keeper_set_node_metadata fails to read the state, to update the
\* monitor or to write the configuration file, the SSL options are refused,
\* keeper_ensure_configuration fails to update the configuration or to set
\* up Postgres, or every step succeeds
ReloadRuns ==
    {"missing", "unreadable", "metadata_state_read", "metadata_monitor",
     "metadata_write", "ssl", "ensure_config_update", "ensure_postgres", "ok"}

\* a call of monitor_update_node_metadata that sends the values of oldConfig
keeper_set_node_metadata_old_values(cfg, oldConfig, nodeId, uri, run) ==
    [ok |-> TRUE,
     call |-> [sent |-> TRUE, uri |-> uri, nodeId |-> nodeId,
               name |-> oldConfig.name, hostname |-> oldConfig.hostname,
               port |-> oldConfig.pgport, ok |-> TRUE],
     written |-> TRUE]

\* keeper_set_node_metadata(keeper, &oldConfig): cfg is keeper->config
keeper_set_node_metadata(cfg, oldConfig, nodeId, uri, run) ==
    LET call == [sent |-> TRUE, uri |-> uri, nodeId |-> nodeId,
                 name |-> cfg.name, hostname |-> cfg.hostname,
                 port |-> cfg.pgport, ok |-> run # "metadata_monitor"]
    IN
    IF run = "metadata_state_read"
    THEN [ok |-> FALSE, call |-> NoCall, written |-> FALSE]
    ELSE IF /\ oldConfig.name = cfg.name
            /\ oldConfig.hostname = cfg.hostname
            /\ oldConfig.pgport = cfg.pgport
    THEN [ok |-> TRUE, call |-> NoCall, written |-> FALSE]
    ELSE IF run = "metadata_monitor"
    THEN [ok |-> FALSE, call |-> call, written |-> FALSE]
    ELSE IF run = "metadata_write"
    THEN [ok |-> FALSE, call |-> call, written |-> FALSE]
    ELSE [ok |-> TRUE, call |-> call, written |-> TRUE]

\* a reload that takes every setting of the new file, pgdata included
keeper_config_accept_new_any(cfg, newConfig, nodeId, uri, run) ==
    [accepted |-> TRUE,
     config |-> [newConfig EXCEPT
                    !.groupId = cfg.groupId,
                    !.replication_slot_name = cfg.replication_slot_name],
     call |-> NoCall, written |-> FALSE]

\* keeper_config_accept_new(keeper, &newConfig): cfg is keeper->config; the
\* result holds keeper->config as the function leaves it
keeper_config_accept_new(cfg, newConfig, nodeId, uri, run) ==
    LET withNames ==
           [cfg EXCEPT !.monitor_pguri = newConfig.monitor_pguri,
                       !.name = newConfig.name,
                       !.hostname = newConfig.hostname]
        monitorUpdateNeeded ==
           newConfig.name # cfg.name \/ newConfig.hostname # cfg.hostname
        meta ==
           IF monitorUpdateNeeded
           THEN keeper_set_node_metadata(withNames, cfg, nodeId, uri, run)
           ELSE [ok |-> TRUE, call |-> NoCall, written |-> FALSE]
        withOthers ==
           [withNames EXCEPT !.network_partition_timeout =
                                newConfig.network_partition_timeout]
    IN
    IF newConfig.pgdata # cfg.pgdata
    THEN [accepted |-> FALSE, config |-> cfg, call |-> NoCall,
          written |-> FALSE]
    ELSE IF /\ newConfig.monitor_pguri # cfg.monitor_pguri
            /\ ~validate_connection_string(newConfig.monitor_pguri)
    THEN [accepted |-> FALSE, config |-> cfg, call |-> NoCall,
          written |-> FALSE]
    ELSE IF ~meta.ok
    THEN [accepted |-> FALSE, config |-> withNames, call |-> meta.call,
          written |-> FALSE]
    ELSE [accepted |-> run # "ssl", config |-> withOthers,
          call |-> meta.call, written |-> meta.written]

\* keeper_ensure_configuration up to monitor_init: the configuration is
\* updated from the node id and group of the state, Postgres is set up,
\* and the monitor is given the URI of the configuration
keeper_ensure_configuration(cfg, connectionString, nodeId, groupId, run) ==
    LET updated == keeper_config_update(cfg, nodeId, groupId) IN
    CASE run = "ensure_config_update" ->
            [ok |-> FALSE, config |-> updated, written |-> FALSE,
             monitorUri |-> connectionString]
      [] run = "ensure_postgres" ->
            [ok |-> FALSE, config |-> updated, written |-> TRUE,
             monitorUri |-> connectionString]
      [] OTHER ->
            [ok |-> validate_connection_string(updated.monitor_pguri),
             config |-> updated, written |-> TRUE,
             monitorUri |-> monitor_init(connectionString,
                                         updated.monitor_pguri)]

ConfigInit ==
    /\ pc = "c_loop"
    /\ now = 1
    /\ KeeperBaseIdle
    /\ RetryIdle
    /\ PeerIdle
    /\ OrderIdle
    /\ OpIdle
    /\ ConfigIdle

\* the operator edits the configuration file
OperatorEdits ==
    /\ pc = "c_loop"
    /\ configFile' \in EditedFiles(configFile) \ {configFile}
    /\ UNCHANGED <<pc, monitor_pgsql, config, monitorUri, current_node_id,
                   stateFileNodeId, reloaded, metadataCall, nodeActiveCall>>
    /\ UNCHANGED configFrame

\* reload_configuration, up to its return
reload_configuration ==
    /\ pc = "c_loop"
    /\ pc' = "c_reloaded"
    /\ \E run \in ReloadRuns :
          LET accept == keeper_config_accept_new(config, configFile,
                                                 stateFileNodeId, monitorUri,
                                                 run)
              ensure == keeper_ensure_configuration(accept.config, monitorUri,
                                                    current_node_id,
                                                    current_group, run)
          IN
          CASE run = "missing" ->
                  /\ reloaded' = "missing"
                  /\ UNCHANGED <<monitor_pgsql, config, configFile,
                                 monitorUri, metadataCall>>
            [] run = "unreadable" ->
                  /\ reloaded' = "unreadable"
                  /\ monitor_pgsql' = pgsql_finish(monitor_pgsql)
                  /\ UNCHANGED <<config, configFile, monitorUri,
                                 metadataCall>>
            [] run \notin {"missing", "unreadable"} /\ ~accept.accepted ->
                  /\ reloaded' = "refused"
                  /\ monitor_pgsql' = pgsql_finish(monitor_pgsql)
                  /\ config' = accept.config
                  /\ configFile' = configFile
                  /\ metadataCall' = accept.call
                  /\ UNCHANGED monitorUri
            [] OTHER ->
                  /\ reloaded' = IF ensure.ok THEN "ok" ELSE "not_ensured"
                  /\ monitor_pgsql' = pgsql_finish(monitor_pgsql)
                  /\ config' = ensure.config
                  /\ configFile' = IF ensure.written THEN ensure.config
                                   ELSE IF accept.written
                                   THEN [accept.config EXCEPT
                                           !.network_partition_timeout =
                                              config.network_partition_timeout]
                                   ELSE configFile
                  /\ metadataCall' = accept.call
                  /\ monitorUri' = ensure.monitorUri
    /\ UNCHANGED <<current_node_id, stateFileNodeId, nodeActiveCall>>
    /\ UNCHANGED configFrame

\* how keeper_node_active goes after the version check: monitor_node_active
\* fails, keeper_refresh_other_nodes fails, keeper_config_update fails,
\* keeper_ensure_configuration fails, or every step succeeds
NodeActiveRuns ==
    {"monitor", "refresh", "config_update", "ensure_config_update",
     "ensure_postgres", "ok"}

\* keeper_node_active from monitor_node_active on, up to its return
ConfigNodeActive ==
    /\ pc = "c_loop"
    /\ pc' = "c_active"
    /\ \E run \in NodeActiveRuns, nodeId \in ReplyNodeIds,
          groupId \in ReplyGroups :
          LET first == keeper_config_update(config, nodeId, groupId)
              kept == NodeIdAfterReply(current_node_id, nodeId)
              ensure == keeper_ensure_configuration(first, monitorUri, kept,
                                                    current_group, run)
              changed == \/ groupId # config.groupId
                         \/ config.replication_slot_name # SlotName(nodeId)
          IN
          \* without a reply there is no assigned node id or group
          /\ run = "monitor" =>
                nodeId = current_node_id /\ groupId = current_group
          /\ nodeActiveCall' =
                [sent |-> TRUE, uri |-> monitorUri, nodeId |-> nodeId,
                 groupId |-> groupId, replied |-> run # "monitor",
                 ok |-> IF changed
                        THEN run = "ok" /\ ensure.ok
                        ELSE run \notin {"monitor", "refresh"}]
          /\ IF run = "monitor"
             THEN UNCHANGED <<current_node_id, config, configFile, monitorUri>>
             ELSE /\ current_node_id' = kept
                  /\ IF run = "refresh" \/ ~changed
                     THEN UNCHANGED <<config, configFile, monitorUri>>
                     ELSE IF run = "config_update"
                     THEN /\ config' = first
                          /\ UNCHANGED <<configFile, monitorUri>>
                     ELSE /\ config' = ensure.config
                          /\ configFile' = IF ensure.written
                                           THEN ensure.config ELSE first
                          /\ monitorUri' = ensure.monitorUri
    /\ monitor_pgsql' = pgsql_finish(monitor_pgsql)
    /\ UNCHANGED <<stateFileNodeId, reloaded, metadataCall>>
    /\ UNCHANGED configFrame

\* the end of the iteration: keeper_store_state
ConfigStoreState ==
    /\ pc = "c_active"
    /\ pc' = "c_loop"
    /\ \E ok \in BOOLEAN :
          stateFileNodeId' = IF ok THEN current_node_id ELSE stateFileNodeId
    /\ nodeActiveCall' = NoCall
    /\ UNCHANGED <<monitor_pgsql, config, configFile, monitorUri,
                   current_node_id, reloaded, metadataCall>>
    /\ UNCHANGED configFrame

\* reload_configuration returns to the loop
ConfigReturn ==
    /\ pc = "c_reloaded"
    /\ pc' = "c_loop"
    /\ reloaded' = "none"
    /\ metadataCall' = NoCall
    /\ UNCHANGED <<monitor_pgsql, config, configFile, monitorUri,
                   current_node_id, stateFileNodeId, nodeActiveCall>>
    /\ UNCHANGED configFrame

ConfigNext ==
    \/ OperatorEdits
    \/ reload_configuration
    \/ ConfigNodeActive
    \/ ConfigStoreState
    \/ ConfigReturn

ConfigSpec == ConfigInit /\ [][ConfigNext]_vars

(***************************************************************************)
(* The order of the steps of one iteration of keeper_node_active_loop:     *)
(* the reply of the monitor, keeper_ensure_current_state, the transition,  *)
(* the close of the two connections and keeper_store_state.                *)
(***************************************************************************)
\* what this part leaves alone
orderFrame == <<envVars, pgIsRunning, reported, hasReplica, selfAssigned,
                ensureStarted, ensureStopped, fileExists, monitorRegistered,
                assignedState, retries, failedStep, reportVars, controlVars,
                retryVars, tickVars, peerVars, configVars, opVars>>

\* the state that keeper_register_and_init leaves in the state file
RegisteredStates == {KeeperStateData(INIT_STATE, goal, 0, 0) : goal \in RegisterGoals}

OrderInit ==
    /\ pc = "o_start"
    /\ now = 1
    /\ file \in RegisteredStates
    /\ mem = file
    /\ networkPartitionTimeout = MaxPartitionTimeout
    /\ fileExists = TRUE
    /\ monitor_pgsql = NoConnection
    /\ monitorRegistered = TRUE
    /\ assignedState = NO_STATE
    /\ retries = 0
    /\ failedStep = "none"
    /\ pgRunning = FALSE
    /\ pgIsRunning = FALSE
    /\ replica = FALSE
    /\ monitorCut = FALSE
    /\ outcome = "none"
    /\ reported = NO_STATE
    /\ hasReplica = FALSE
    /\ selfAssigned = FALSE
    /\ ensured = FALSE
    /\ ensureStarted = FALSE
    /\ ensureStopped = FALSE
    /\ transition = "none"
    /\ ReportIdle
    /\ ControlIdle
    /\ TickIdle
    /\ RetryIdle
    /\ ExtraIdle

\* keeper_load_state and keeper_update_pg_state, whose queries may leave the
\* connection to the local Postgres open
OrderLoad ==
    /\ pc = "o_start"
    /\ \E loadOk \in BOOLEAN, query \in BOOLEAN :
          IF loadOk
          THEN /\ mem' = keeper_load_state(file, mem)
               /\ sqlClient' = query
               /\ pc' = "o_loaded"
          ELSE /\ ~query
               /\ UNCHANGED <<mem, sqlClient>>
               /\ pc' = "o_start"
    /\ steps' = <<>>
    /\ outcome' = "none"
    /\ ensured' = FALSE
    /\ transition' = "none"
    /\ UNCHANGED <<file, monitor_pgsql>>
    /\ UNCHANGED orderFrame

\* keeper_node_active: monitor_node_active closes its connection after the
\* query; the reply is kept in keeper->state.  When the version check fails
\* on an open connection the process exits there.
OrderNodeActive ==
    /\ pc = "o_loaded"
    /\ \E out \in NodeActiveOutcomes, reply \in ReplyRoles,
          seesReplica \in BOOLEAN :
          /\ out \notin {"ok", "refreshfail"} => reply = SINGLE_STATE
          /\ seesReplica =>
                out = "nafail" /\ mem.current_role = PRIMARY_STATE
          /\ outcome' = out
          /\ IF out = "mismatch"
             THEN /\ pc' = "o_exited"
                  /\ mem' = file
                  /\ sqlClient' = FALSE
                  /\ steps' = Append(steps, "exit_monitor")
             ELSE /\ pc' = "o_active"
                  /\ mem' = keeper_node_active_state(mem, out, reply, now,
                                networkPartitionTimeout, seesReplica)
                  /\ sqlClient' = sqlClient
                  /\ steps' = IF out \in {"nafail", "connfail"} THEN steps
                              ELSE Append(steps, "reply")
    /\ monitor_pgsql' = pgsql_finish(monitor_pgsql)
    /\ UNCHANGED <<file, ensured, transition>>
    /\ UNCHANGED orderFrame

\* keeper_ensure_current_state and keeper_fsm_reach_assigned_state as the
\* loop calls them; their queries may leave the two connections open
OrderReconcile ==
    /\ pc = "o_active"
    /\ pc' = "o_acted"
    /\ \E transitionOk \in BOOLEAN, query \in BOOLEAN, monitorQuery \in BOOLEAN :
          LET needStateChange == mem.assigned_role # mem.current_role
              doEnsure ==
                 IF needStateChange
                 THEN keeper_should_ensure_current_state_before_transition(mem)
                 ELSE couldContactMonitor
              afterEnsure == IF doEnsure THEN Append(steps, "ensure")
                             ELSE steps
          IN
          /\ ensured' = doEnsure
          /\ IF needStateChange
             THEN /\ mem' = FsmReach(mem, transitionOk)
                  /\ transition' = IF transitionOk THEN "ok" ELSE "failed"
                  /\ steps' = Append(afterEnsure, "transition")
                  /\ monitor_pgsql' =
                        pgsql_open_connection(monitor_pgsql, monitorQuery)
             ELSE /\ transitionOk
                  /\ ~monitorQuery
                  /\ mem' = mem
                  /\ transition' = "none"
                  /\ steps' = afterEnsure
                  /\ UNCHANGED monitor_pgsql
          /\ ~doEnsure /\ ~needStateChange => ~query
          /\ sqlClient' = (sqlClient \/ query)
    /\ UNCHANGED <<file, outcome>>
    /\ UNCHANGED orderFrame

\* pgsql_finish(pgsql) and pgsql_finish(&(keeper->monitor.pgsql))
OrderClose ==
    /\ pc = "o_acted"
    /\ pc' = "o_closed"
    /\ sqlClient' = FALSE
    /\ monitor_pgsql' = pgsql_finish(monitor_pgsql)
    /\ steps' = Append(steps, "close")
    /\ UNCHANGED <<file, mem, outcome, ensured, transition>>
    /\ UNCHANGED orderFrame

\* a store that comes before the connections are closed
OrderStoreGuard_early == pc = "o_acted"

\* where in the iteration keeper_store_state is called
OrderStoreGuard == pc = "o_closed"

\* keeper_store_state, the end of the iteration
OrderStore ==
    /\ OrderStoreGuard
    /\ pc' = "o_start"
    /\ \E ok \in BOOLEAN :
          /\ file' = keeper_state_write(file, mem, ok)
          /\ steps' = Append(steps, IF ok THEN "persist" ELSE "persist_failed")
    /\ UNCHANGED <<mem, monitor_pgsql, sqlClient, outcome, ensured, transition>>
    /\ UNCHANGED orderFrame

\* CHECK_FOR_FAST_SHUTDOWN after keeper_update_pg_state, after
\* keeper_node_active and after the connections are closed: the loop is left
\* and the process ends
OrderFastShutdown ==
    /\ pc \in {"o_loaded", "o_active", "o_closed"}
    /\ pc' = "o_exited"
    /\ mem' = file
    /\ sqlClient' = FALSE
    /\ monitor_pgsql' = pgsql_finish(monitor_pgsql)
    /\ steps' = Append(steps, "fast_shutdown")
    /\ UNCHANGED <<file, outcome, ensured, transition>>
    /\ UNCHANGED orderFrame

\* the supervisor starts the service again
OrderRestart ==
    /\ pc = "o_exited"
    /\ pc' = "o_start"
    /\ UNCHANGED <<file, mem, monitor_pgsql, sqlClient, steps, outcome,
                   ensured, transition>>
    /\ UNCHANGED orderFrame

OrderNext ==
    \/ OrderLoad
    \/ OrderNodeActive
    \/ OrderReconcile
    \/ OrderClose
    \/ OrderStore
    \/ OrderFastShutdown
    \/ OrderRestart

OrderSpec == OrderInit /\ [][OrderNext]_vars

(***************************************************************************)
(* The drop-node operation, keeper_remove.                                 *)
(***************************************************************************)
\* what this part leaves alone
removeFrame == <<mem, envVars, pgIsRunning, iterVars, assignedState, retries,
                 failedStep, reportVars, controlVars, retryVars, tickVars,
                 peerVars, configVars, orderVars, listen, cycle, standby>>

\* the arguments of keeper_remove and the state it may be called in: a node
\* that is registered, or one whose removal was done in part
RemoveInit ==
    /\ pc = "r_ready"
    /\ now = 1
    /\ fileExists \in BOOLEAN
    /\ file \in IF fileExists THEN RegisteredStates ELSE {BlankState}
    /\ mem = BlankState
    /\ monitorRegistered \in BOOLEAN
    /\ removal \in {[NoRemoval EXCEPT !.monitorDisabled = d,
                                      !.ignore_monitor_errors = i,
                                      !.initFile = f] :
                       d \in BOOLEAN, i \in BOOLEAN, f \in BOOLEAN}
    /\ networkPartitionTimeout = MaxPartitionTimeout
    /\ monitor_pgsql = NoConnection
    /\ assignedState = NO_STATE
    /\ retries = 0
    /\ failedStep = "none"
    /\ pgRunning = FALSE
    /\ pgIsRunning = FALSE
    /\ replica = FALSE
    /\ monitorCut = FALSE
    /\ outcome = "none"
    /\ reported = NO_STATE
    /\ hasReplica = FALSE
    /\ selfAssigned = FALSE
    /\ ensured = FALSE
    /\ ensureStarted = FALSE
    /\ ensureStopped = FALSE
    /\ transition = "none"
    /\ ReportIdle
    /\ ControlIdle
    /\ TickIdle
    /\ RetryIdle
    /\ PeerIdle
    /\ ConfigIdle
    /\ OrderIdle
    /\ listen = NoListen
    /\ cycle = NoCycle
    /\ standby = NoStandby

\* how the monitor part of keeper_remove goes: monitor_init refuses the
\* URI, monitor_remove fails, or the monitor runs remove_node
RemoveRuns == {"init_failed", "remove_failed", "ok"}

\* a keeper_remove that asks a monitor that is disabled
MonitorIsAsked_always(monitorDisabled) == TRUE

\* if (!config->monitorDisabled)
MonitorIsAsked(monitorDisabled) == ~monitorDisabled

\* a keeper_remove that unlinks the files whatever the monitor answered
RemoveGoesOn_always(monitorCall, ignore_monitor_errors) == TRUE

\* whether keeper_remove goes on to unlink the files: not when monitor_init
\* failed, and after a failed monitor_remove only with ignore_monitor_errors
RemoveGoesOn(monitorCall, ignore_monitor_errors) ==
    CASE monitorCall = "init_failed" -> FALSE
      [] monitorCall = "failed" -> ignore_monitor_errors
      [] OTHER -> TRUE

\* keeper_remove(keeper, config, ignore_monitor_errors)
keeper_remove ==
    /\ pc = "r_ready"
    /\ pc' = "r_done"
    /\ \E run \in RemoveRuns, stateOk \in BOOLEAN, initOk \in BOOLEAN :
          LET asks == MonitorIsAsked(removal.monitorDisabled)
              call == CASE ~asks -> "none"
                        [] run = "init_failed" -> "init_failed"
                        [] run = "remove_failed" -> "failed"
                        [] OTHER -> "ok"
              goesOn == RemoveGoesOn(call, removal.ignore_monitor_errors)
              errors == (call = "failed") \/ ~stateOk \/ ~initOk
          IN
          /\ ~asks => run = "ok"
          /\ ~goesOn => stateOk /\ initOk
          /\ monitorRegistered' = IF call = "ok" THEN FALSE
                                  ELSE monitorRegistered
          /\ IF goesOn /\ stateOk
             THEN unlink_file
             ELSE UNCHANGED <<file, fileExists>>
          /\ removal' =
                [removal EXCEPT
                    !.monitorCall = call,
                    !.initFile = IF goesOn /\ initOk THEN FALSE ELSE @,
                    !.returned = IF goesOn /\ ~errors THEN "true"
                                 ELSE "false"]
    /\ monitor_pgsql' = pgsql_finish(monitor_pgsql)
    /\ UNCHANGED removeFrame

\* pg_autoctl drop node is run again, with other arguments or the same
RemoveAgain ==
    /\ pc = "r_done"
    /\ pc' = "r_ready"
    /\ \E d \in BOOLEAN, i \in BOOLEAN :
          removal' = [removal EXCEPT !.monitorDisabled = d,
                                     !.ignore_monitor_errors = i,
                                     !.monitorCall = "none",
                                     !.returned = "none"]
    /\ UNCHANGED <<file, fileExists, monitor_pgsql, monitorRegistered>>
    /\ UNCHANGED removeFrame

RemoveNext ==
    \/ keeper_remove
    \/ RemoveAgain

RemoveSpec == RemoveInit /\ [][RemoveNext]_vars

(***************************************************************************)
(* The wait for notifications of the monitor,                              *)
(* monitor_wait_until_some_node_reported_state (and, with another          *)
(* predicate, monitor_wait_until_primary_applied_settings).                *)
(***************************************************************************)
\* what this part leaves alone
waitFrame == <<file, mem, networkPartitionTimeout, pgRunning, pgIsRunning,
               replica, monitorCut, iterVars, fileExists, monitorRegistered,
               assignedState, retries, failedStep, reportVars, controlVars,
               retryVars, tickVars, peerVars, configVars, orderVars, removal,
               cycle, standby>>

\* what the monitor may notify: a message of the log channel, a state change
\* that is not the awaited one, the awaited state change
Notifications == {"log", "state", "target"}

\* (now - start) > PG_AUTOCTL_LISTEN_NOTIFICATIONS_TIMEOUT, in uint64_t
ListenTimedOut(t, start) ==
    IF t >= start THEN t - start > PG_AUTOCTL_LISTEN_NOTIFICATIONS_TIMEOUT
    ELSE TRUE

\* a select() that is given a timeout and returns when it has run out
SelectReturns_timeout(queue, t, start) ==
    queue # <<>> \/ ListenTimedOut(t, start)

\* select(sock + 1, &input_mask, NULL, NULL, NULL): without a timeout, it
\* returns when there is something to read on the socket
SelectReturns(queue, t, start) == queue # <<>>

WaitInit ==
    /\ pc = "w_ready"
    /\ now = 0
    /\ KeeperBaseIdle
    /\ RetryIdle
    /\ ExtraIdle

\* the head of the function: connection is not NULL, start = time(NULL)
WaitBegin ==
    /\ pc = "w_ready"
    /\ \E connected \in BOOLEAN :
          IF connected
          THEN /\ pc' = "w_top"
               /\ monitor_pgsql' = pgsql_open_connection(monitor_pgsql, TRUE)
               /\ listen' = [listen EXCEPT !.start = now]
          ELSE /\ pc' = "w_returned"
               /\ monitor_pgsql' = monitor_pgsql
               /\ listen' = [listen EXCEPT !.returned = "false"]
    /\ UNCHANGED now
    /\ UNCHANGED waitFrame

\* while (!failoverIsDone): the test of the timeout, then PQsocket
WaitTop ==
    /\ pc = "w_top"
    /\ IF listen.done \/ ListenTimedOut(now, listen.start)
       THEN /\ pc' = "w_returned"
            /\ monitor_pgsql' = pgsql_finish(monitor_pgsql)
            /\ listen' = [listen EXCEPT
                            !.returned = IF listen.done THEN "true"
                                         ELSE "false"]
       ELSE /\ pc' = "w_select"
            /\ UNCHANGED <<monitor_pgsql, listen>>
    /\ UNCHANGED now
    /\ UNCHANGED waitFrame

\* select() returns, PQconsumeInput
WaitSelect ==
    /\ pc = "w_select"
    /\ SelectReturns(listen.queue, now, listen.start)
    /\ pc' = "w_drain"
    /\ UNCHANGED <<now, monitor_pgsql, listen>>
    /\ UNCHANGED waitFrame

\* select() fails: return false
WaitSelectFails ==
    /\ pc = "w_select"
    /\ pc' = "w_returned"
    /\ listen' = [listen EXCEPT !.returned = "false"]
    /\ UNCHANGED <<now, monitor_pgsql>>
    /\ UNCHANGED waitFrame

\* while ((notify = PQnotifies(connection)) != NULL): one notification
WaitDrain ==
    /\ pc = "w_drain"
    /\ IF listen.queue = <<>>
       THEN /\ pc' = "w_top"
            /\ UNCHANGED listen
       ELSE LET notify == Head(listen.queue)
                rest == [listen EXCEPT !.queue = Tail(listen.queue)]
            IN  IF ListenTimedOut(now, listen.start)
                THEN pc' = "w_top" /\ listen' = rest
                ELSE IF notify = "target"
                THEN pc' = "w_top" /\ listen' = [rest EXCEPT !.done = TRUE]
                ELSE pc' = "w_drain" /\ listen' = rest
    /\ UNCHANGED <<now, monitor_pgsql>>
    /\ UNCHANGED waitFrame

\* the monitor sends a notification
MonitorNotifies ==
    /\ pc \in {"w_top", "w_select", "w_drain"}
    /\ Len(listen.queue) < MaxQueue
    /\ \E n \in Notifications :
          listen' = [listen EXCEPT !.queue = Append(listen.queue, n)]
    /\ UNCHANGED <<pc, now, monitor_pgsql>>
    /\ UNCHANGED waitFrame

\* time passes while the wait is under way
WaitClock ==
    /\ pc # "w_ready"
    /\ now < MaxWaitTime
    /\ now' = now + 1
    /\ UNCHANGED <<pc, monitor_pgsql, listen>>
    /\ UNCHANGED waitFrame

WaitSteps ==
    \/ WaitBegin
    \/ WaitTop
    \/ WaitSelect
    \/ WaitDrain

WaitNext ==
    \/ WaitSteps
    \/ WaitSelectFails
    \/ MonitorNotifies
    \/ WaitClock

\* the process runs whenever it can, and time passes
WaitFairness == WF_vars(WaitSteps) /\ WF_vars(WaitClock)

WaitFairSpec == WaitInit /\ [][WaitNext]_vars /\ WaitFairness

TickSpec == TickInit /\ [][TickNext]_vars

(***************************************************************************)
(* The pace of keeper_node_active_loop: when an iteration sleeps           *)
(* PG_AUTOCTL_KEEPER_SLEEP_TIME before it does its work.                   *)
(***************************************************************************)
\* what this part leaves alone
cycleFrame == <<file, mem, networkPartitionTimeout, pgRunning, pgIsRunning,
                replica, monitorCut, iterVars, fileExists, monitorRegistered,
                assignedState, retries, failedStep, reportVars, controlVars,
                retryVars, tickVars, peerVars, configVars, orderVars, removal,
                listen, standby, monitor_pgsql>>

\* what an iteration may have been: none before it, cut short by a failed
\* keeper_load_state, without a transition, or with a transition that failed,
\* that succeeded and could not be stored, that succeeded and was stored
IterationKinds == {"none", "load_failed", "steady", "transition_failed",
                   "store_failed", "transition_stored"}

IterationKind(needStateChange, transitionOk, storeOk) ==
    IF ~needStateChange THEN (IF storeOk THEN "steady" ELSE "store_failed")
    ELSE IF ~transitionOk THEN "transition_failed"
    ELSE IF ~storeOk THEN "store_failed"
    ELSE "transition_stored"

\* a loop that cycles faster after any transition it attempted
DoSleepAfter_attempt(doSleep, needStateChange, transitionFailed) ==
    IF needStateChange THEN FALSE ELSE doSleep

\* if (needStateChange && !transitionFailed) doSleep = false;
DoSleepAfter(doSleep, needStateChange, transitionFailed) ==
    IF needStateChange /\ ~transitionFailed THEN FALSE ELSE doSleep

\* the locals of keeper_node_active_loop when the process enters the loop
CycleInit ==
    /\ pc = "c_top"
    /\ now = 0
    /\ KeeperBaseIdle
    /\ RetryIdle
    /\ ExtraIdle

\* the head of an iteration, for a process that was not asked to stop:
\* if (doSleep) sleep(PG_AUTOCTL_KEEPER_SLEEP_TIME); doSleep = true;
CycleTop ==
    /\ pc = "c_top"
    /\ cycle.doSleep => now + PG_AUTOCTL_KEEPER_SLEEP_TIME <= MaxCycleTime
    /\ now' = IF cycle.doSleep
              THEN now + PG_AUTOCTL_KEEPER_SLEEP_TIME ELSE now
    /\ cycle' = [cycle EXCEPT !.slept = cycle.doSleep, !.doSleep = TRUE]
    /\ pc' = "c_awake"
    /\ UNCHANGED cycleFrame

\* keeper_load_state; when it fails the iteration ends there (continue)
CycleLoad ==
    /\ pc = "c_awake"
    /\ \E loaded \in BOOLEAN :
          IF loaded
          THEN /\ pc' = "c_loaded"
               /\ cycle' = cycle
          ELSE /\ pc' = "c_top"
               /\ cycle' = [cycle EXCEPT !.previous = "load_failed"]
    /\ UNCHANGED now
    /\ UNCHANGED cycleFrame

\* from keeper_update_pg_state to the end of the iteration: the exchange with
\* the monitor, the transition if the roles differ, keeper_store_state, and
\* the locals set after it
CycleBody ==
    /\ pc = "c_loaded"
    /\ \E needStateChange \in BOOLEAN, transitionOk \in BOOLEAN,
          storeOk \in BOOLEAN :
          LET transitionFailed ==
                 (needStateChange /\ ~transitionOk) \/ ~storeOk
          IN
          /\ ~needStateChange => transitionOk
          /\ cycle' = [cycle EXCEPT
                         !.doSleep = DoSleepAfter(cycle.doSleep,
                                        needStateChange, transitionFailed),
                         !.firstLoop = FALSE,
                         !.previous = IterationKind(needStateChange,
                                                    transitionOk, storeOk)]
    /\ pc' = "c_top"
    /\ UNCHANGED now
    /\ UNCHANGED cycleFrame

\* asked_to_stop at the head of the loop, CHECK_FOR_FAST_SHUTDOWN after it,
\* or exit(EXIT_CODE_MONITOR) in keeper_node_active: the loop is left
CycleLeaves ==
    /\ pc \in {"c_top", "c_awake", "c_loaded"}
    /\ pc' = "c_ended"
    /\ UNCHANGED <<now, cycle>>
    /\ UNCHANGED cycleFrame

\* the supervisor starts the service again: a new process enters the loop
CycleRestart ==
    /\ pc = "c_ended"
    /\ pc' = "c_top"
    /\ cycle' = NoCycle
    /\ UNCHANGED now
    /\ UNCHANGED cycleFrame

CycleNext ==
    \/ CycleTop
    \/ CycleLoad
    \/ CycleBody
    \/ CycleLeaves
    \/ CycleRestart

CycleSpec == CycleInit /\ [][CycleNext]_vars

(***************************************************************************)
(* The standby part of keeper_ensure_configuration: the standby            *)
(* configuration file is written again, and Postgres is restarted when its *)
(* content has changed.                                                    *)
(***************************************************************************)
\* what this part leaves alone
standbyFrame == <<file, mem, networkPartitionTimeout, pgRunning, pgIsRunning,
                  replica, monitorCut, iterVars, fileExists,
                  monitorRegistered, assignedState, retries, failedStep,
                  reportVars, controlVars, retryVars, tickVars, peerVars,
                  configVars, orderVars, removal, listen, cycle,
                  monitor_pgsql>>

\* the roles in which the standby configuration is written
StandbyRoles == {CATCHINGUP_STATE, SECONDARY_STATE, MAINTENANCE_STATE}

\* contents of the standby configuration file; "none" is no file, and a
\* currentConfContents that is NULL
ConfContents == {"conninfo_a", "conninfo_b"}

\* how a call goes: monitor_get_primary fails, read_file of the current
\* contents fails, pg_setup_standby_mode fails, read_file of the new contents
\* fails, the CHECKPOINT fails, Postgres cannot be stopped, Postgres cannot be
\* started, or every step succeeds
StandbyRuns == {"get_primary", "read_current", "setup", "read_new",
                "checkpoint", "stop", "start", "ok"}

\* a comparison that always sees a change
StandbyConfChanged_always(currentConfContents, newConfContents) == TRUE

\* currentConfContents == NULL ||
\* strcmp(newConfContents, currentConfContents) != 0
StandbyConfChanged(currentConfContents, newConfContents) ==
    \/ currentConfContents = "none"
    \/ newConfContents # currentConfContents

\* the steps that a call reaches, so that each run is one way through it
StandbyRunApplies(s, run, new) ==
    IF s.current_role \notin StandbyRoles THEN run = "ok" /\ new = "conninfo_a"
    ELSE /\ run = "get_primary" => ~s.primaryNode
         /\ run = "read_current" => s.conf # "none"
         /\ run \in {"get_primary", "read_current", "setup"} =>
               new = "conninfo_a"
         /\ run \in {"checkpoint", "stop", "start"} =>
               StandbyConfChanged(s.conf, new)

\* keeper_restart_postgres, after the CHECKPOINT: ensure_postgres_service_is_
\* stopped, then keeper_ensure_postgres_is_running
StandbyRestart(s, run) ==
    LET checked == [s EXCEPT !.checkpoint =
                       IF s.running /\ run # "checkpoint"
                       THEN "ok" ELSE "failed"]
    IN
    IF run = "stop"
    THEN [checked EXCEPT !.restart = "stop_failed", !.returned = "false"]
    ELSE IF run = "start"
    THEN [checked EXCEPT !.restart = "start_failed", !.running = FALSE,
                         !.returned = "false"]
    ELSE [checked EXCEPT !.restart = "ok", !.running = TRUE,
                         !.returned = "true"]

\* the standby part of keeper_ensure_configuration up to its return
StandbyAfter(s, run, new) ==
    IF s.current_role \notin StandbyRoles
    THEN [s EXCEPT !.returned = "true"]
    ELSE IF run = "get_primary"
    THEN [s EXCEPT !.returned = "false"]
    ELSE IF run = "read_current"
    THEN [s EXCEPT !.primaryNode = TRUE, !.returned = "false"]
    ELSE IF run = "setup"
    THEN [s EXCEPT !.primaryNode = TRUE, !.currentConfContents = s.conf,
                   !.returned = "false"]
    ELSE LET written == [s EXCEPT !.primaryNode = TRUE,
                                  !.currentConfContents = s.conf,
                                  !.conf = new]
         IN
         IF run = "read_new"
         THEN [written EXCEPT !.returned = "false"]
         ELSE IF StandbyConfChanged(s.conf, new)
         THEN StandbyRestart(written, run)
         ELSE [written EXCEPT !.returned = "true"]

\* the node when the process starts: its role, a primary node that is not
\* known yet, the standby configuration file and Postgres
StandbyInit ==
    /\ pc = "s_ready"
    /\ now = 0
    /\ KeeperBaseIdle
    /\ RetryIdle
    /\ PeerIdle
    /\ ConfigIdle
    /\ OrderIdle
    /\ removal = NoRemoval
    /\ listen = NoListen
    /\ cycle = NoCycle
    /\ standby \in {[NoStandby EXCEPT !.current_role = role,
                                      !.conf = conf,
                                      !.running = running] :
                       role \in {PRIMARY_STATE, SECONDARY_STATE},
                       conf \in ConfContents \cup {"none"},
                       running \in BOOLEAN}

keeper_ensure_configuration_standby ==
    /\ pc = "s_ready"
    /\ pc' = "s_done"
    /\ \E run \in StandbyRuns, new \in ConfContents :
          /\ StandbyRunApplies(standby, run, new)
          /\ standby' = StandbyAfter(standby, run, new)
    /\ UNCHANGED now
    /\ UNCHANGED standbyFrame

\* the function has returned: its locals are gone
StandbyReturn ==
    /\ pc = "s_done"
    /\ pc' = "s_ready"
    /\ standby' = [standby EXCEPT !.currentConfContents = "none",
                                  !.checkpoint = "none",
                                  !.restart = "none",
                                  !.returned = "none"]
    /\ UNCHANGED now
    /\ UNCHANGED standbyFrame

\* the role of the node changes between two calls
StandbyRoleChanges ==
    /\ pc = "s_ready"
    /\ \E role \in StandbyRoles \cup {PRIMARY_STATE} :
          /\ role # standby.current_role
          /\ standby' = [standby EXCEPT !.current_role = role]
    /\ UNCHANGED <<pc, now>>
    /\ UNCHANGED standbyFrame

StandbyNext ==
    \/ keeper_ensure_configuration_standby
    \/ StandbyReturn
    \/ StandbyRoleChanges

StandbySpec == StandbyInit /\ [][StandbyNext]_vars

TypeOK ==
    /\ pc \in {"create_state", "begin", "register", "update_state",
              "config_update", "init_state", "commit", "rollback",
              "returned_false",
              "start", "loaded", "active", "acted", "exited"}
    /\ file.current_role \in NodeState
    /\ mem.assigned_role \in NodeState \cup {NO_STATE}
    /\ pc \in {"start", "loaded", "active", "acted", "exited"} =>
          /\ fileExists
          /\ monitorRegistered
          /\ file.assigned_role \in NodeState
          /\ file.last_monitor_contact > 0
    /\ retries \in 0..MaxRegisterRetries
    /\ now \in 1..MaxTime

(***************************************************************************)
(* Claims about network partition detection.                               *)
(***************************************************************************)
\* the contact lags as keeper_node_active found them: the state file is what
\* the iteration loaded, and it is not written before the iteration ends
MonitorLagOver == now - file.last_monitor_contact > networkPartitionTimeout
SecondaryLagOver == now - file.last_secondary_contact > networkPartitionTimeout
BothContactsSet ==
    file.last_monitor_contact > 0 /\ file.last_secondary_contact > 0
\* the clock is behind a recorded contact: the unsigned lag wraps
MonitorLagWraps == now < file.last_monitor_contact
SecondaryLagWraps == now < file.last_secondary_contact

FailedNodeActiveAsPrimary ==
    /\ pc = "active"
    /\ outcome = "nafail"
    /\ file.current_role = PRIMARY_STATE

\* C1 as stated: whenever the monitor call of a PRIMARY fails, the keeper
\* self-assigns DEMOTE_TIMEOUT iff both contact lags exceed the partition
\* timeout and no replica is seen; otherwise assigned_role is left as it was.
C1_Original ==
    FailedNodeActiveAsPrimary =>
       /\ selfAssigned <=> (MonitorLagOver /\ SecondaryLagOver /\ ~hasReplica)
       /\ ~selfAssigned => mem.assigned_role = file.assigned_role

\* C1 amended: on every failed node_active call of a PRIMARY, the keeper
\* self-assigns DEMOTE_TIMEOUT iff both contact timestamps are nonzero, both
\* lags, taken as unsigned differences (a contact in the future of the clock
\* counts as over the timeout), exceed the partition timeout and no replica
\* is seen; in every other case, and when the monitor connection could not
\* be opened for the version check, assigned_role is left as it was.
C1_SelfDemotionIff ==
    /\ FailedNodeActiveAsPrimary =>
          /\ selfAssigned <=> /\ BothContactsSet
                              /\ MonitorLagOver \/ MonitorLagWraps
                              /\ SecondaryLagOver \/ SecondaryLagWraps
                              /\ ~hasReplica
          /\ selfAssigned => mem.assigned_role = DEMOTE_TIMEOUT_STATE
          /\ ~selfAssigned => mem.assigned_role = file.assigned_role
    /\ (pc = "active" /\ outcome = "connfail") =>
          /\ ~selfAssigned
          /\ mem.assigned_role = file.assigned_role

C1_Witness ==
    /\ FailedNodeActiveAsPrimary
    /\ selfAssigned
    /\ MonitorLagOver
    /\ SecondaryLagOver
    /\ file.assigned_role = PRIMARY_STATE
    /\ mem.assigned_role = DEMOTE_TIMEOUT_STATE
    /\ networkPartitionTimeout = MaxPartitionTimeout

\* C9 as stated: with a partition timeout of 0 the keeper never self-assigns
\* DEMOTE_TIMEOUT.
C9_Original ==
    networkPartitionTimeout = 0 => ~selfAssigned

\* C9 amended: with a partition timeout of 0, a PRIMARY whose node_active
\* call failed self-assigns DEMOTE_TIMEOUT exactly when both contact
\* timestamps are nonzero and differ from the current second and no replica
\* is seen: a zero timeout does not disable self-demotion.
C9_ZeroTimeout ==
    (FailedNodeActiveAsPrimary /\ networkPartitionTimeout = 0) =>
       (selfAssigned <=> /\ file.last_monitor_contact \notin {0, now}
                         /\ file.last_secondary_contact \notin {0, now}
                         /\ ~hasReplica)

C9_Witness ==
    /\ FailedNodeActiveAsPrimary
    /\ networkPartitionTimeout = 0
    /\ selfAssigned
    /\ mem.assigned_role = DEMOTE_TIMEOUT_STATE

\* C10: the keeper never self-assigns DEMOTE_TIMEOUT while last_monitor_contact
\* or last_secondary_contact is zero: a PRIMARY that never recorded a contact
\* with a standby keeps its assigned role whatever the lags are.
C10_NoDemotionWithoutContacts ==
    (pc = "active" /\ ~BothContactsSet) =>
       /\ ~selfAssigned
       /\ outcome \in {"connfail", "nafail"} =>
             mem.assigned_role = file.assigned_role

C10_Witness ==
    /\ FailedNodeActiveAsPrimary
    /\ file.last_secondary_contact = 0
    /\ MonitorLagOver
    /\ SecondaryLagOver
    /\ ~replica
    /\ ~selfAssigned
    /\ mem.assigned_role = PRIMARY_STATE

(***************************************************************************)
(* Claims about the loop: what is reported, ensured and stored.            *)
(***************************************************************************)
\* C2 as stated: in every iteration whose current role is DEMOTED,
\* DEMOTE_TIMEOUT or DRAINING the keeper does not start Postgres, and when
\* Postgres is running the keeper stops it.
C2_Original ==
    (pc = "acted" /\ file.current_role \in DownRoles) =>
       /\ ~ensureStarted
       /\ pgIsRunning => ensureStopped

\* C2 amended: in every iteration whose current role is DEMOTED,
\* DEMOTE_TIMEOUT or DRAINING, keeper_ensure_current_state never asks for
\* Postgres to be started; it asks for a running Postgres to be stopped in
\* exactly the iterations in which keeper_node_active succeeded and the
\* assigned role is the current role.
C2_DownRolesStayDown ==
    (pc = "acted" /\ file.current_role \in DownRoles) =>
       /\ ~ensureStarted
       /\ ensureStopped <=>
             (pgIsRunning /\ transition = "none" /\ outcome = "ok")

C2_Witness ==
    /\ pc = "acted"
    /\ file.current_role \in DownRoles
    /\ pgIsRunning
    /\ ensured
    /\ ensureStopped
    /\ ~pgRunning

\* C3: when the assigned role differs from the current role,
\* keeper_ensure_current_state runs before the transition iff neither role is
\* DRAINING, DEMOTE_TIMEOUT or DEMOTED, so Postgres is not started between
\* such an assignment and its transition.
C3_EnsureBeforeTransition ==
    (pc = "acted" /\ transition # "none") =>
       /\ ensured <=> /\ file.current_role \notin DownRoles
                      /\ mem.assigned_role \notin DownRoles
       /\ (file.current_role \in DownRoles \/ mem.assigned_role \in DownRoles)
             => ~ensureStarted

C3_Witness ==
    /\ pc = "acted"
    /\ transition = "failed"
    /\ file.current_role = PRIMARY_STATE
    /\ mem.assigned_role \in DownRoles
    /\ ~pgIsRunning
    /\ ~ensured
    /\ ~pgRunning

\* C4: the current role passed to node_active is the current role the state
\* file holds at the time of the call, whatever stores and loads failed and
\* whatever exits happened before.
C4_ReportedIsOnDisk ==
    (pc \in {"active", "acted"} /\ reported # NO_STATE) =>
       reported = file.current_role

C4_Witness ==
    /\ pc = "active"
    /\ outcome = "ok"
    /\ reported = PRIMARY_STATE
    /\ file.current_role = PRIMARY_STATE

\* C8 as stated, its first half: once the keeper has self-assigned
\* DEMOTE_TIMEOUT, the end of the iteration leaves that assignment in the
\* state file.
C8_Original ==
    [][(pc = "acted" /\ selfAssigned /\ pc' = "start")
          => file'.assigned_role = DEMOTE_TIMEOUT_STATE]_vars

\* C8 amended: a self-assigned DEMOTE_TIMEOUT is in the state file once the
\* keeper_store_state that ends the iteration succeeds; from then on an
\* iteration whose node_active call or monitor connection fails leaves
\* assigned_role at DEMOTE_TIMEOUT, in memory and in the file, and only an
\* iteration in which the monitor replied writes another assigned role.
C8_DemoteTimeoutSticks ==
    [][/\ (pc = "acted" /\ selfAssigned /\ pc' = "start" /\ file' = mem)
          => file'.assigned_role = DEMOTE_TIMEOUT_STATE
       /\ (pc = "loaded" /\ pc' = "active"
             /\ file.assigned_role = DEMOTE_TIMEOUT_STATE
             /\ outcome' \in {"connfail", "nafail"})
          => mem'.assigned_role = DEMOTE_TIMEOUT_STATE
       /\ (file.assigned_role = DEMOTE_TIMEOUT_STATE
             /\ file'.assigned_role # DEMOTE_TIMEOUT_STATE)
          => outcome \in {"ok", "refreshfail"}]_vars

C8_Witness ==
    /\ pc = "active"
    /\ outcome = "nafail"
    /\ file.assigned_role = DEMOTE_TIMEOUT_STATE
    /\ file.current_role = PRIMARY_STATE
    /\ hasReplica
    /\ mem.assigned_role = DEMOTE_TIMEOUT_STATE

(***************************************************************************)
(* Claims about registration.                                              *)
(***************************************************************************)
\* the state file holds what the monitor assigned
StateFileWritten == fileExists /\ file.assigned_role # NO_STATE

\* C5: in every registration run, retries after object-in-use included, the
\* monitor-side registration becomes committed only after the local state
\* file holding the assigned node id, group and role has been written.
C5_CommitAfterStateFile ==
    [][(~monitorRegistered /\ monitorRegistered') => StateFileWritten]_vars

\* the retried register_node has committed and no state file is written yet
C5_Witness ==
    /\ pc = "update_state"
    /\ retries > 0
    /\ monitorRegistered
    /\ ~StateFileWritten

\* C6: when a step of registration after BEGIN fails (the register call, the
\* state write, the configuration update, the init-state write or the
\* COMMIT), then on return the state file does not exist and no registration
\* of this node is committed on the monitor.
C6_FailedRegistrationLeavesNothing ==
    (pc = "returned_false" /\ failedStep \in StepsAfterBegin) =>
       (~fileExists /\ ~monitorRegistered)

\* registration failed at the state write after a retried register_node
C6_Witness ==
    /\ pc = "returned_false"
    /\ failedStep = "update_state"
    /\ ~fileExists
    /\ monitorRegistered

(***************************************************************************)
(* Claims about what a lasting partition leads to.                         *)
(***************************************************************************)
\* a running primary with no transition pending, both contacts set and older
\* than the timeout, no standby connected, and the monitor out of reach from
\* now on
PartitionedPrimary ==
    /\ monitorCut
    /\ pc = "start"
    /\ file.current_role = PRIMARY_STATE
    /\ file.assigned_role = PRIMARY_STATE
    /\ BothContactsSet
    /\ MonitorLagOver
    /\ SecondaryLagOver
    /\ ~replica
    /\ pgRunning

\* C7: a PRIMARY with both contact timestamps set and no replica connected,
\* whose every attempt to reach the monitor fails (opening the connection
\* included) for longer than the partition timeout, eventually self-assigns
\* DEMOTE_TIMEOUT and its Postgres is stopped.
C7_PartitionLeadsToDemotion ==
    PartitionedPrimary ~>
       (mem.assigned_role = DEMOTE_TIMEOUT_STATE /\ ~pgRunning)

\* the partitioned primary, an iteration of which could not connect
C7_Witness ==
    /\ monitorCut
    /\ pc = "active"
    /\ outcome = "connfail"
    /\ file.current_role = PRIMARY_STATE
    /\ BothContactsSet
    /\ MonitorLagOver
    /\ SecondaryLagOver
    /\ pgRunning
    /\ mem.assigned_role = PRIMARY_STATE

(***************************************************************************)
(* Claims about the pgIsRunning value reported to the monitor.             *)
(***************************************************************************)
\* keeper_node_active has just computed its report for a PRIMARY whose
\* postgres->pgIsRunning is false
ReportedPrimaryDown ==
    /\ pc = "active"
    /\ mem.current_role = PRIMARY_STATE
    /\ ~pgIsRunning

StartBudgetSpent ==
    \/ now - pgFirstStartFailureTs > restartFailureTimeout
    \/ pgStartRetries >= restartFailureMaxRetries

C12_ReportWithinBudget ==
    (ReportedPrimaryDown /\ pgFirstStartFailureTs # 0) =>
       (~reportPgIsRunning <=> StartBudgetSpent)

\* the case where C12 holds: the clock is not behind the first failure
C12_MonotonicClock ==
    (ReportedPrimaryDown /\ pgFirstStartFailureTs # 0
        /\ now >= pgFirstStartFailureTs) =>
       (~reportPgIsRunning <=> StartBudgetSpent)

C12_Witness ==
    /\ ReportedPrimaryDown
    /\ pgFirstStartFailureTs # 0
    /\ now >= pgFirstStartFailureTs
    /\ ~StartBudgetSpent
    /\ reportPgIsRunning

(***************************************************************************)
(* Claims about the checks of the local Postgres.                          *)
(***************************************************************************)
\* this iteration's keeper_update_pg_state found a running Postgres whose
\* system identifier is not the one in the keeper's state
IdentifierMismatch ==
    /\ pc \in {"loaded", "active", "acted"}
    /\ system_identifier # 0
    /\ control_system_identifier # system_identifier
    /\ pgIsRunning

\* ... or found Postgres running on another port than the configured one
PortMismatch ==
    /\ pc \in {"loaded", "active"}
    /\ pgRunning
    /\ ~portMatches

\* C20: when the state holds a nonzero system identifier and the running
\* Postgres reports another one, or runs on another port than configured,
\* the iteration does not go on to report to the monitor, to run a
\* transition or to ensure the current state.
C20_MismatchIsFatal ==
    (IdentifierMismatch \/ PortMismatch) =>
       /\ ~pgStateUpdated
       /\ reported = NO_STATE
       /\ ~ensured
       /\ transition = "none"

\* the iteration that found another system identifier reported to the
\* monitor, ensured the current state and ran a transition
C20_Witness ==
    /\ pc = "acted"
    /\ IdentifierMismatch
    /\ ~pgStateUpdated
    /\ reported # NO_STATE
    /\ ensured
    /\ transition = "ok"

(***************************************************************************)
(* Claims about one iteration of the loop and the monitor.                 *)
(***************************************************************************)
StopSignals == {"asked_to_stop", "asked_to_stop_fast"}

Terminated == pc \in {"t_exited", "t_stopped"}

\* C13, as stated: the loop ends only on a stop signal or when the version
\* of the monitor's extension differs from the compiled-in version.
C13_Original ==
    Terminated => asked \in StopSignals \/ versionCheck = "differs"

\* C13, amended: the loop ends on a stop signal; the process exits when the
\* PID file is not its own any more, and when the version check failed on a
\* connection that was established, be it that the version differs, that
\* the version query failed or that its result could not be parsed.  A
\* failure to connect to the monitor does not end it.
C13_TerminatesOnlyOnStopOrFailedCheck ==
    /\ pc = "t_stopped" => asked \in StopSignals
    /\ pc = "t_exited" =>
          \/ /\ exitCode = "EXIT_CODE_MONITOR"
             /\ status = "PG_CONNECTION_OK"
             /\ versionCheck \in {"differs", "query_failed", "unparsed"}
          \/ /\ exitCode = "EXIT_CODE_QUIT"
             /\ ~pidfileOurs
    /\ versionCheck = "connfail" => exitCode # "EXIT_CODE_MONITOR"

\* the process exited because the version query failed, with no stop signal
\* and its PID file in place
C13_Witness ==
    /\ pc = "t_exited"
    /\ versionCheck = "query_failed"
    /\ asked = "none"
    /\ pidfileOurs

\* C14: in an iteration monitor_node_active is called only after the version
\* check of that iteration found the installed version equal to the
\* compiled-in one; when the versions differ node_active is not called, the
\* process exits with EXIT_CODE_MONITOR, and the supervisor restarts it.
C14_NodeActiveAfterVersionCheck ==
    /\ nodeActiveSent \/ pc = "t_node_active" => versionCheck = "equal"
    /\ versionCheck = "differs" =>
          /\ ~nodeActiveSent
          /\ pc = "t_exited"
          /\ exitCode = "EXIT_CODE_MONITOR"
    /\ pc = "t_exited" => ENABLED TickSupervisorRestart

\* the versions differed and the process exited
C14_Witness ==
    /\ pc = "t_exited"
    /\ versionCheck = "differs"
    /\ exitCode = "EXIT_CODE_MONITOR"
    /\ ~nodeActiveSent

\* C19: in every iteration the monitor is tried once: when it cannot be
\* reached the iteration goes on without a second attempt and without a
\* retry sleep, in the first iteration and after a reload as in any other.
C19_SingleAttempt == connAttempts <= 1

\* the monitor could not be reached in the first iteration, and it was tried
\* again after a retry sleep
C19_Witness ==
    /\ firstLoop
    /\ exitCode = "none"
    /\ connAttempts >= 2
    /\ sleepMs > 0
    /\ versionCheck = "connfail"

\* with the main-loop policy in place when the iteration starts, the monitor
\* is tried once
C19_MainLoopPolicyTriesOnce ==
    (retryPolicy.maxR = 0 /\ versionCheck # "equal") => connAttempts <= 1

(***************************************************************************)
(* Claims about the connection retry policy.                               *)
(***************************************************************************)
\* the query of monitor_register_node is answered with the error code
RegisterAnswered(code) ==
    pc = "r_query" /\ pc' # "r_query" /\ sqlstate' = code

\* the registration is tried again
RegisterRetried == pc = "r_query" /\ pc' = "r_connect"

\* C15: when register_node fails with the exclusion-violation code, the
\* registration fails at once: no sleep time is computed and the query is
\* not sent again, whatever is left of the retry budget.
C15_ExclusionViolationFailsAtOnce ==
    [][RegisterAnswered(ERRCODE_EXCLUSION_VIOLATION) =>
          /\ pc' = "r_failed"
          /\ UNCHANGED <<registerPolicy, sleepMs>>]_vars

\* the exclusion violation ended a registration whose budget was not spent
C15_Witness ==
    /\ pc = "r_failed"
    /\ sqlstate = ERRCODE_EXCLUSION_VIOLATION
    /\ ~pgsql_retry_policy_expired(registerPolicy, now, asked # "none")

RetryBudgetSpent(policy, t) ==
    \/ asked # "none"
    \/ t - policy.startTime >= policy.maxT
    \/ policy.maxR > 0 /\ policy.attempts >= policy.maxR

\* C17: at its expiry check pgsql_retry_open_connection gives up when a
\* stop, fast-stop, quit or reload flag is raised, or the time elapsed since
\* the loop started is at least maxT, or maxR > 0 and attempts >= maxR; in
\* every other case it goes on.
C17_GivesUpExactlyWhenSpent ==
    [][pc = "r_check" /\ pc' # "r_check" =>
          (pc' = "r_gave_up" <=> RetryBudgetSpent(retryPolicy, now))]_vars

\* the loop gave up with no flag raised, attempts left, and a clock that is
\* behind the time at which the loop started
C17_Witness ==
    /\ pc = "r_gave_up"
    /\ asked = "none"
    /\ now < retryPolicy.startTime
    /\ ~(retryPolicy.maxR > 0 /\ retryPolicy.attempts >= retryPolicy.maxR)

\* C18: every retry sleep time that is computed is at most the policy's
\* maxSleepTime.
C18_SleepIsCapped ==
    retryPolicy.attempts > 0 =>
       /\ sleepMs <= retryPolicy.maxSleepTime
       /\ retryPolicy.sleepTime <= retryPolicy.maxSleepTime

\* the cap was needed: three times the previous sleep is above it
C18_Witness ==
    /\ retryPolicy.attempts > 1
    /\ sleepMs = retryPolicy.maxSleepTime
    /\ sleepMs = InitCap

(***************************************************************************)
(* Claims about the order of registration.                                 *)
(***************************************************************************)
\* the steps of keeper_register_and_init from BEGIN to COMMIT
RegistrationSteps ==
    {"begin", "register", "update_state", "config_update", "init_state",
     "commit"}

EntriesOf(array) == {array.nodes[i] : i \in 1..array.count}

\* the entries of current that are new or have a new host
ChangedPeers(previous, current) ==
    {n \in EntriesOf(current) :
       \/ n.nodeId \notin NodeIdsOf(previous)
       \/ \E p \in EntriesOf(previous) :
             p.nodeId = n.nodeId /\ p.host # n.host}

\* C23: the diff a refresh computes holds every current peer whose nodeId
\* is absent from the previous list and every current peer whose host is not
\* the host of the previous entry with its nodeId, and every peer in the
\* cached otherNodes has the HBA rules of its host.
C23_DiffHoldsEveryChange ==
    /\ ChangedPeers(previousNodesArray, newNodesArray)
          \subseteq EntriesOf(diffNodesArray)
    /\ \A n \in EntriesOf(otherNodes) : n.host \in hbaRules

\* previous [1], current [2, 3]: the diff holds node 2 only, and node 3 is
\* cached with no rule for its host
C23_Witness ==
    /\ pc = "refreshed"
    /\ ListOf(previousNodesArray) = <<[nodeId |-> 1, host |-> "h1"]>>
    /\ ListOf(newNodesArray) =
          <<[nodeId |-> 2, host |-> "h1"], [nodeId |-> 3, host |-> "h2"]>>
    /\ ListOf(diffNodesArray) = <<[nodeId |-> 2, host |-> "h1"]>>
    /\ otherNodes = newNodesArray
    /\ "h2" \notin hbaRules

\* C24: when the monitor returns the list of peers that is cached, the
\* empty list and a list of NODE_ARRAY_MAX_COUNT peers included, the diff is
\* empty, and the refresh edits no HBA rule and calls no reload of the
\* configuration of Postgres.
C24_SameListEmptyDiff ==
    (pc = "refreshed" /\ ListOf(newNodesArray) = ListOf(previousNodesArray))
       => /\ diffNodesArray.count = 0
          /\ ~hbaEdited
          /\ ~hbaReload

\* a full list of peers was returned a second time
C24_Witness ==
    /\ pc = "refreshed"
    /\ newNodesArray.count = NODE_ARRAY_MAX_COUNT
    /\ ListOf(newNodesArray) = ListOf(previousNodesArray)
    /\ diffNodesArray.count = 0
    /\ ListOf(otherNodes) = ListOf(newNodesArray)

\* current is previous with one or more peers removed, nothing else
PeersRemovedOnly(previous, current) ==
    /\ EntriesOf(current) \subseteq EntriesOf(previous)
    /\ current.count < previous.count

\* C25: when the new list is the previous list with one or more peers
\* removed and no peer added or changed, the diff is empty, no HBA rule is
\* edited and no reload of the configuration of Postgres is called.
C25_RemovalLeavesHbaAlone ==
    (pc = "refreshed" /\ PeersRemovedOnly(previousNodesArray, newNodesArray))
       => /\ diffNodesArray.count = 0
          /\ ~hbaEdited
          /\ ~hbaReload

\* previous [2, 3], current [3]: node 3 is in the diff and Postgres was
\* asked to reload
C25_Witness ==
    /\ pc = "refreshed"
    /\ ListOf(previousNodesArray) =
          <<[nodeId |-> 2, host |-> "h1"], [nodeId |-> 3, host |-> "h2"]>>
    /\ ListOf(newNodesArray) = <<[nodeId |-> 3, host |-> "h2"]>>
    /\ ListOf(diffNodesArray) = <<[nodeId |-> 3, host |-> "h2"]>>
    /\ hbaEdited
    /\ hbaReload

\* slot maintenance ran its query and the query succeeded
MaintenanceDone ==
    /\ pc = "ensured"
    /\ maintained.role \in RunningRoles
    /\ maintained.result = "ok"

\* no physical slot with a managed name is left for a node that is no peer
RemovedPeersHaveNoSlot ==
    \A s \in slots :
       (s.slot_type = "physical" /\ MatchesSlotNamePattern(s.slot_name))
          => s.slot_name \in SlotNamesOf(otherNodes)

\* C26 as stated: after a run of keeper_ensure_current_state in PRIMARY,
\* SINGLE or SECONDARY no managed slot of a removed peer is left, every
\* dropped slot has a name that matches the managed-slot pattern, and no
\* dropped slot is the slot of a peer in otherNodes.
C26_Original ==
    MaintenanceDone =>
       /\ RemovedPeersHaveNoSlot
       /\ \A s \in droppedSlots : MatchesSlotNamePattern(s.slot_name)
       /\ \A s \in droppedSlots : s.slot_name \notin SlotNamesOf(otherNodes)

\* C26: a run of keeper_ensure_current_state in PRIMARY, SINGLE or SECONDARY
\* whose maintenance query succeeds leaves no managed physical slot of a node
\* that is not in otherNodes; a dropped slot is physical, is not the slot of
\* a peer in otherNodes, and its name matches the managed-slot pattern or,
\* in PRIMARY and SINGLE only, holds the default slot name; a run that fails
\* or is bypassed drops nothing.
C26_DropsSlotsOfRemovedPeers ==
    /\ MaintenanceDone => RemovedPeersHaveNoSlot
    /\ \A s \in droppedSlots :
          /\ MaintenanceDone
          /\ s.slot_type = "physical"
          /\ s.slot_name \notin SlotNamesOf(otherNodes)
          /\ \/ MatchesSlotNamePattern(s.slot_name)
             \/ /\ maintained.role \in {PRIMARY_STATE, SINGLE_STATE}
                /\ MatchesSlotNameDefault(s.slot_name)

\* on a secondary the slot of the removed node 1 was dropped, the slot of
\* the peer 2 and the slots that are not of a peer are still there
C26_Witness ==
    /\ MaintenanceDone
    /\ maintained.role = SECONDARY_STATE
    /\ PhysicalSlot(SlotName(1)) \in droppedSlots
    /\ NodeIdsOf(otherNodes) = {2}
    /\ PhysicalSlot(SlotName(2)) \in slots
    /\ ForeignSlots \subseteq slots

(***************************************************************************)
(* Claims about the configuration                                          *)
(***************************************************************************)
\* C28: a reload whose configuration file has another pgdata than the
\* running configuration is refused: every field of the configuration in
\* memory, pgdata included, keeps the value it had before the reload.
C28_PgdataChangeRefused ==
    [][reload_configuration /\ configFile.pgdata # config.pgdata
          => config' = config /\ reloaded' \notin {"ok", "not_ensured"}]_vars

\* a reload was refused whose file changed pgdata and other settings too
C28_Witness ==
    /\ pc = "c_reloaded"
    /\ reloaded = "refused"
    /\ configFile.pgdata # config.pgdata
    /\ configFile.name # config.name
    /\ configFile.monitor_pguri # config.monitor_pguri
    /\ configFile.network_partition_timeout # config.network_partition_timeout

NameOrHostnameEdited ==
    configFile.name # config.name \/ configFile.hostname # config.hostname

\* C30 as stated: an accepted reload whose file changes the name, the
\* hostname or the port takes the three values of the file and calls
\* monitor_update_node_metadata with them.
C30_Original ==
    [][/\ reload_configuration
       /\ reloaded' = "ok"
       /\ NameOrHostnameEdited \/ configFile.pgport # config.pgport
       => /\ metadataCall'.sent
          /\ metadataCall'.name = configFile.name
          /\ metadataCall'.hostname = configFile.hostname
          /\ metadataCall'.port = configFile.pgport
          /\ config'.pgport = configFile.pgport]_vars

\* C30: an accepted reload whose file changes the name or the hostname
\* takes both from the file and has called monitor_update_node_metadata
\* with the node id of the state file, the new name, the new hostname and
\* the port of the running configuration; a reload never changes the port
\* of the configuration, and calls the monitor only when the name or the
\* hostname changed.
C30_NameAndHostnameReachMonitor ==
    [][reload_configuration
       => /\ reloaded' = "ok" /\ NameOrHostnameEdited
             => /\ metadataCall'.sent
                /\ metadataCall'.ok
                /\ metadataCall'.nodeId = stateFileNodeId
                /\ metadataCall'.uri = monitorUri
                /\ metadataCall'.name = configFile.name
                /\ metadataCall'.hostname = configFile.hostname
                /\ metadataCall'.port = config.pgport
                /\ config'.name = configFile.name
                /\ config'.hostname = configFile.hostname
          /\ ~NameOrHostnameEdited => ~metadataCall'.sent
          /\ config'.pgport = config.pgport]_vars

\* an accepted reload has sent the new name and hostname to the monitor
C30_Witness ==
    /\ pc = "c_reloaded"
    /\ reloaded = "ok"
    /\ metadataCall.sent
    /\ metadataCall.name = "n2"
    /\ metadataCall.hostname = "host2"
    /\ metadataCall.port = BaseConfig.pgport
    /\ config.name = "n2"
    /\ config.hostname = "host2"

\* C21 as stated: a reply of the monitor with another node id than the
\* persisted one changes neither the node id of the state file nor the
\* replication slot name of the configuration file.
C21_Original ==
    [][/\ ConfigNodeActive
       /\ nodeActiveCall'.replied
       /\ nodeActiveCall'.nodeId # stateFileNodeId
       => /\ stateFileNodeId' = stateFileNodeId
          /\ configFile'.replication_slot_name =
                configFile.replication_slot_name]_vars

\* C21: no step after registration changes the node id of the state, in
\* memory or in the state file; and when keeper_node_active returns true
\* after a reply whose node id or group is not the one of the
\* configuration, the configuration, in memory and in its file, holds the
\* group of the state and the slot name of the persisted node id.
C21_NodeIdKeptConfigFollowsState ==
    [][/\ stateFileNodeId' = stateFileNodeId
       /\ current_node_id' = current_node_id
       /\ /\ ConfigNodeActive
          /\ nodeActiveCall'.ok
          /\ \/ config.replication_slot_name
                   # SlotName(nodeActiveCall'.nodeId)
             \/ config.groupId # nodeActiveCall'.groupId
          => /\ config'.replication_slot_name = SlotName(stateFileNodeId)
             /\ config'.groupId = current_group
             /\ configFile' = config']_vars

\* keeper_node_active has returned true after a reply with another node id
\* than the persisted one
C21_Witness ==
    /\ pc = "c_active"
    /\ nodeActiveCall.sent
    /\ nodeActiveCall.ok
    /\ nodeActiveCall.nodeId # stateFileNodeId
    /\ current_node_id = stateFileNodeId
    /\ config.replication_slot_name = SlotName(stateFileNodeId)
    /\ configFile.replication_slot_name = SlotName(stateFileNodeId)

(***************************************************************************)
(* Claims about the order of the steps of an iteration                     *)
(***************************************************************************)
\* C22 as stated: the assigned role of the reply is in the state file when
\* the transition runs, and the state the transition left is in the state
\* file when the connections are closed.
C22_Original ==
    [][/\ /\ OrderReconcile
          /\ outcome \in {"ok", "refreshfail"}
          /\ transition' # "none"
          => file.assigned_role = mem.assigned_role
       /\ OrderClose /\ transition = "ok" => file = mem]_vars

\* C22: within an iteration the steps come in the order monitor reply,
\* transition, close of the connections, persist: the state file is not
\* written from the reply up to the close of the connections, the
\* transition runs before the connections are closed, and
\* keeper_store_state, the one write of the iteration, runs when both
\* connections are closed and writes the state the transition left.
C22_ReplyTransitionClosePersist ==
    [][/\ OrderNodeActive \/ OrderReconcile \/ OrderClose => file' = file
       /\ OrderReconcile =>
             \A i \in 1..Len(steps) : steps[i] = "reply"
       /\ OrderClose => ~sqlClient' /\ ~monitor_pgsql'.connection
       /\ OrderStore =>
             /\ Len(steps) > 0
             /\ steps[Len(steps)] = "close"
             /\ ~sqlClient
             /\ ~monitor_pgsql.connection
             /\ file' \in {file, mem}]_vars

\* an iteration went through reply, ensure, transition, close and persist
C22_Witness ==
    /\ pc = "o_start"
    /\ steps = <<"reply", "ensure", "transition", "close", "persist">>
    /\ transition = "ok"
    /\ file = mem
    /\ file.current_role = file.assigned_role

(***************************************************************************)
(* Claims about the drop-node operation                                    *)
(***************************************************************************)
\* C31 as stated: keeper_remove unlinks the state file only after it has
\* asked the monitor to forget the node, and leaves the file in place when
\* that call fails and monitor errors are not ignored.
C31_Original ==
    [][keeper_remove
       => /\ fileExists /\ ~fileExists'
             => removal'.monitorCall \in {"ok", "failed"}
          /\ removal'.monitorCall = "failed" /\ ~removal.ignore_monitor_errors
             => fileExists' = fileExists /\ file' = file]_vars

\* C31: with a monitor in the configuration, keeper_remove unlinks the
\* state file only after monitor_remove was called, and leaves the state
\* file and the init file in place when monitor_init or monitor_remove
\* failed and monitor errors are not ignored; with the monitor disabled the
\* files are unlinked without any call to a monitor.
C31_UnlinkAfterMonitorAsked ==
    [][keeper_remove
       => /\ fileExists /\ ~fileExists' /\ ~removal.monitorDisabled
             => removal'.monitorCall \in {"ok", "failed"}
          /\ \/ removal'.monitorCall = "init_failed"
             \/ /\ removal'.monitorCall = "failed"
                /\ ~removal.ignore_monitor_errors
             => /\ fileExists' = fileExists
                /\ file' = file
                /\ removal'.initFile = removal.initFile
                /\ removal'.returned = "false"
          /\ removal.monitorDisabled
             => removal'.monitorCall = "none"
                /\ monitorRegistered' = monitorRegistered]_vars

\* keeper_remove has failed to reach the monitor of a registered node and
\* has left its state file in place
C31_Witness ==
    /\ pc = "r_done"
    /\ removal.monitorCall = "failed"
    /\ ~removal.ignore_monitor_errors
    /\ removal.returned = "false"
    /\ fileExists
    /\ monitorRegistered

(***************************************************************************)
(* Claims about the wait for notifications                                 *)
(***************************************************************************)
\* C32: every wait for a notification of the monitor returns, also when the
\* monitor sends nothing after the wait began.
C32_WaitReturns == <>(pc = "w_returned")

\* the wait is past its timeout and still blocked in select(), with nothing
\* to read
C32_Witness ==
    /\ pc = "w_select"
    /\ listen.queue = <<>>
    /\ ~listen.done
    /\ ListenTimedOut(now, listen.start)
    /\ now = MaxWaitTime

(***************************************************************************)
(* Claims about the iterations of the loop                                 *)
(***************************************************************************)
\* C33: when the transition fails, the current role that the end of the
\* iteration writes to the state file is the one the iteration loaded from
\* it; and every iteration that finds the assigned role different from the
\* current role attempts the transition, whatever failed before.  (The step
\* from active to acted is Reconcile, the one from acted to start StoreState.)
C33_FailedTransitionKeepsRole ==
    [][/\ pc = "active" /\ pc' = "acted" =>
             /\ transition' # "none" <=> mem.assigned_role # mem.current_role
             /\ transition' = "failed" =>
                   mem'.current_role = mem.current_role
       /\ pc = "acted" /\ pc' = "start" /\ transition = "failed" =>
             /\ mem.current_role = file.current_role
             /\ file'.current_role = file.current_role]_vars

\* a transition has failed and the role of the state file is still current
C33_Witness ==
    /\ pc = "acted"
    /\ transition = "failed"
    /\ mem.assigned_role # mem.current_role
    /\ mem.current_role = file.current_role
    /\ file.assigned_role # mem.assigned_role

C35_SleepSkippedOnlyAfterTransition ==
    [][CycleTop =>
          /\ ~cycle'.slept <=>
                cycle.previous \in {"none", "transition_stored"}
          /\ cycle'.slept => now' = now + PG_AUTOCTL_KEEPER_SLEEP_TIME]_vars

\* an iteration that follows a stored transition did not sleep, in a process
\* that has slept before
C35_Witness ==
    /\ pc = "c_awake"
    /\ ~cycle.slept
    /\ cycle.previous = "transition_stored"
    /\ ~cycle.firstLoop
    /\ now > 0

\* C36 as stated: every iteration that loaded the state and was not cut
\* short by a fast shutdown ends with the state file holding the
\* last_monitor_contact and last_secondary_contact of the iteration.
C36_Original ==
    [][/\ pc \in {"o_loaded", "o_active", "o_acted", "o_closed"}
       /\ pc' \in {"o_start", "o_exited"}
       /\ steps'[Len(steps')] # "fast_shutdown"
       => /\ OrderStore
          /\ file'.last_monitor_contact = mem.last_monitor_contact
          /\ file'.last_secondary_contact = mem.last_secondary_contact]_vars

\* C36: an iteration that loaded the state ends in a fast shutdown, in the
\* exit on an incompatible monitor, or in keeper_store_state, whatever the
\* monitor exchange and the transition did; a store that succeeds leaves the
\* state of the iteration in the file, with the last_monitor_contact of a
\* reply of this iteration, and a store that fails leaves the file as it
\* was.
C36_IterationEndsWithStore ==
    [][/\ pc \in {"o_loaded", "o_active", "o_acted", "o_closed"}
       /\ pc' \in {"o_start", "o_exited"}
       /\ steps'[Len(steps')] \notin {"fast_shutdown", "exit_monitor"}
       => /\ OrderStore
          /\ steps'[Len(steps')] = "persist" =>
                /\ file' = mem
                /\ outcome \in {"ok", "refreshfail"} =>
                      file'.last_monitor_contact = now
          /\ steps'[Len(steps')] = "persist_failed" => file' = file]_vars

\* an iteration in which the monitor replied has stored its state
C36_Witness ==
    /\ pc = "o_start"
    /\ steps # <<>>
    /\ steps[Len(steps)] = "persist"
    /\ outcome = "refreshfail"
    /\ transition = "failed"
    /\ file.last_monitor_contact = now

(***************************************************************************)
(* Claims about the replication slots and the cache of the other nodes     *)
(***************************************************************************)
\* C37: keeper_ensure_current_state (the step from peers to ensured) issues
\* no slot advance while the current role is PRIMARY or SINGLE, issues no slot creation, drop or advance and
\* leaves the slots alone while it is CATCHINGUP, and issues a slot advance
\* only while it is SECONDARY.
C37_AdvanceOnlyOnSecondary ==
    [][pc = "peers" /\ pc' = "ensured" =>
          /\ maintained'.role \in {PRIMARY_STATE, SINGLE_STATE} =>
                "advance" \notin maintained'.operations
          /\ maintained'.role = CATCHINGUP_STATE =>
                /\ maintained'.operations = {}
                /\ slots' = slots
          /\ "advance" \in maintained'.operations =>
                maintained'.role = SECONDARY_STATE]_vars

\* a secondary has run the query that advances slots, and has created a slot
C37_Witness ==
    /\ pc = "ensured"
    /\ maintained.role = SECONDARY_STATE
    /\ maintained.result = "ok"
    /\ "advance" \in maintained.operations
    /\ \E s \in slots : s \notin ForeignSlots

\* C39: the cache keeper->otherNodes is replaced by the list of the monitor
\* only by a refresh whose diff is empty or whose HBA edit was made, and a
\* refresh whose HBA edit failed leaves the cache as it was, so that the
\* next refresh computes the same diff again.
C39_CacheFollowsHba ==
    [][/\ otherNodes' # otherNodes /\ pc' # pc =>
             /\ pc' = "refreshed"
             /\ diffNodesArray'.count = 0 \/ hbaEdited'
       /\ pc' = "refreshed" /\ diffNodesArray'.count > 0 /\ ~hbaEdited' =>
             otherNodes' = otherNodes]_vars

\* slot maintenance on a secondary has put peers into the cache of which
\* none has an HBA rule
C39_Witness ==
    /\ pc = "ensured"
    /\ maintained.role = SECONDARY_STATE
    /\ maintained.result = "ok"
    /\ otherNodes.count > 0
    /\ \A i \in 1..otherNodes.count : otherNodes.nodes[i].host \notin hbaRules

(***************************************************************************)
(* Claims about the standby configuration                                  *)
(***************************************************************************)
\* C38 as stated: in the standby part of keeper_ensure_configuration every
\* restart of Postgres comes after a checkpoint was made.
C38_Original ==
    [][pc = "s_ready" /\ pc' = "s_done" /\ standby'.restart # "none" =>
          standby'.checkpoint = "ok"]_vars

\* C38: in the roles CATCHINGUP, SECONDARY and MAINTENANCE Postgres is
\* stopped or started by keeper_ensure_configuration only if the standby
\* configuration file it wrote differs from the one that was there before
\* (or none was there), and only after a CHECKPOINT was sent, which may have
\* failed; when the content is the same there is no restart.
C38_RestartOnlyWhenChanged ==
    [][pc = "s_ready" /\ pc' = "s_done" =>
          /\ standby'.restart # "none" =>
                /\ standby.current_role \in StandbyRoles
                /\ standby'.conf # standby.conf
                /\ standby'.checkpoint # "none"
          /\ standby'.conf = standby.conf =>
                /\ standby'.restart = "none"
                /\ standby'.checkpoint = "none"
                /\ standby'.running = standby.running]_vars

\* a secondary whose standby configuration changed was restarted after a
\* checkpoint
C38_Witness ==
    /\ pc = "s_done"
    /\ standby.current_role = SECONDARY_STATE
    /\ standby.currentConfContents = "conninfo_a"
    /\ standby.conf = "conninfo_b"
    /\ standby.checkpoint = "ok"
    /\ standby.restart = "ok"
    /\ standby.returned = "true"

(***************************************************************************)
(* Claims about the lower end of the retry sleep time                      *)
(***************************************************************************)
\* C40: every computation of a retry sleep time, the first one of a
\* sequence included, evaluates random_between with an upper bound that is
\* not below the lower bound, and yields a sleep time of at least
\* min(baseSleepTime, maxSleepTime).
C40_SleepAtLeastBase ==
    [][retryPolicy'.attempts > retryPolicy.attempts =>
          /\ retryPolicy.sleepTime * 3 >= retryPolicy.baseSleepTime
          /\ sleepMs' >= min(retryPolicy.baseSleepTime,
                             retryPolicy.maxSleepTime)]_vars

\* the first sleep time of a sequence is below the base sleep time
C40_Witness ==
    /\ pc = "retrying"
    /\ retryPolicy.attempts = 1
    /\ sleepMs > 0
    /\ sleepMs < retryPolicy.baseSleepTime
    /\ sleepMs < retryPolicy.maxSleepTime

====
